---- MODULE Spec2Model ----
(***************************************************************************)
(* Bitmap on-chain index (bitmap-oci) and bitmap / parcel validation.      *)
(*                                                                         *)
(* Strings are sequences of one-character strings, so that split, trim,    *)
(* parseInt, toString and string comparison are computed, not assumed.     *)
(* A remote response is chosen when the request is answered; within one    *)
(* validation run every remote item is requested once.                     *)
(***************************************************************************)
EXTENDS Integers, Sequences, FiniteSets

\* ------------------------------------------------------------------------
\* Bounds of the model
\* ------------------------------------------------------------------------
\* number of concurrent stand-alone getBitmapSat callers
NumCallers == 2
\* number of child inscriptions the remote holds for the root inscription
MaxChildren == 2

\* ------------------------------------------------------------------------
\* Program constants
\* ------------------------------------------------------------------------
PageSize == 100000
MaxBitmap == 839999
BitmapLimit == 840000
NumPageDocs == 9

\* entries of a page document as the decoding is exercised; the code's page
\* has PageSize entries and its split points are PageSize - 1, PageSize and
\* 2 * PageSize - 1
PageLen == 3

\* ------------------------------------------------------------------------
\* Strings
\* ------------------------------------------------------------------------
\* UTF-16 code unit order of the characters the model uses
CharOrder == <<"\n", " ", "+", "-", ".", "0", "1", "2", "3", "4", "5", "6",
               "7", "8", "9", "a", "b", "c", "d", "i", "m", "p", "r", "t", "x">>

Code(c) == CHOOSE i \in 1..Len(CharOrder) : CharOrder[i] = c

Digits == {"0", "1", "2", "3", "4", "5", "6", "7", "8", "9"}

DigitVal(c) == Code(c) - Code("0")

Whitespace == {" ", "\n"}

\* the absent value (undefined); like the empty string it is falsy
Undefined == <<>>

Truthy(s) == s # <<>>

BITMAP == <<"b", "i", "t", "m", "a", "p">>

DOT_BITMAP == <<".">> \o BITMAP

\* a < b on strings: lexicographic by code unit, a proper prefix is smaller
RECURSIVE StrLess(_, _)
StrLess(a, b) ==
    IF b = <<>> THEN FALSE
    ELSE IF a = <<>> THEN TRUE
    ELSE IF Head(a) = Head(b) THEN StrLess(Tail(a), Tail(b))
    ELSE Code(Head(a)) < Code(Head(b))

RECURSIVE TrimStart(_)
TrimStart(s) ==
    IF s # <<>> /\ Head(s) \in Whitespace THEN TrimStart(Tail(s)) ELSE s

RECURSIVE TrimEnd(_)
TrimEnd(s) ==
    IF s # <<>> /\ s[Len(s)] \in Whitespace
    THEN TrimEnd(SubSeq(s, 1, Len(s) - 1)) ELSE s

Trim(s) == TrimEnd(TrimStart(s))

\* s.split('.'): the parts between the dots, empty parts included
RECURSIVE SplitFrom(_, _, _)
SplitFrom(s, cur, acc) ==
    IF s = <<>> THEN Append(acc, cur)
    ELSE IF Head(s) = "." THEN SplitFrom(Tail(s), <<>>, Append(acc, cur))
    ELSE SplitFrom(Tail(s), Append(cur, Head(s)), acc)

Split(s) == SplitFrom(s, <<>>, <<>>)

EndsWith(s, suffix) ==
    /\ Len(s) >= Len(suffix)
    /\ SubSeq(s, Len(s) - Len(suffix) + 1, Len(s)) = suffix

Includes(s, sub) ==
    \E i \in 1..(Len(s) + 1) :
        /\ i + Len(sub) - 1 <= Len(s)
        /\ SubSeq(s, i, i + Len(sub) - 1) = sub

RECURSIVE DigitPrefix(_)
DigitPrefix(s) ==
    IF s # <<>> /\ Head(s) \in Digits
    THEN <<Head(s)>> \o DigitPrefix(Tail(s)) ELSE <<>>

RECURSIVE DigitsValue(_, _)
DigitsValue(s, acc) ==
    IF s = <<>> THEN acc ELSE DigitsValue(Tail(s), 10 * acc + DigitVal(Head(s)))

\* parseInt(s, 10): leading white space, an optional sign, then the longest
\* run of digits; NaN when there is no digit
ParseInt(s) ==
    LET t == TrimStart(s)
        neg == t # <<>> /\ Head(t) = "-"
        u == IF t # <<>> /\ Head(t) \in {"+", "-"} THEN Tail(t) ELSE t
        d == DigitPrefix(u)
    IN IF d = <<>> THEN [nan |-> TRUE, val |-> 0]
       ELSE [nan |-> FALSE,
             val |-> IF neg THEN 0 - DigitsValue(d, 0) ELSE DigitsValue(d, 0)]

RECURSIVE NatToString(_)
NatToString(n) ==
    IF n < 10 THEN <<CharOrder[Code("0") + n]>>
    ELSE NatToString(n \div 10) \o <<CharOrder[Code("0") + (n % 10)]>>

\* n.toString() of an integer
ToString(n) == IF n < 0 THEN <<"-">> \o NatToString(0 - n) ELSE NatToString(n)

AllDigits(s) == s # <<>> /\ \A i \in 1..Len(s) : s[i] \in Digits

\* ------------------------------------------------------------------------
\* bitmap-oci: the page cache and getBitmapSat
\* ------------------------------------------------------------------------
PageIds == 0..(NumPageDocs - 1)

Callers == 1..NumCallers

\* numbers the stand-alone callers ask for
SatInputs == {0 - 1, 0, 99999, 100000, MaxBitmap, BitmapLimit}

IdleCall == [pc |-> "idle", n |-> 0, outcome |-> "none", error |-> "none",
             value |-> <<>>]

VARIABLES
    pages,              \* page cache: slot p is "unset" or "decoded"
    sat,                \* the stand-alone getBitmapSat calls
    vb,                 \* the validation call in progress and its result
    kids,               \* locals of getChildrenInscriptions and its requests
    tasks,              \* the child validations started by validateBitmap
    parcelTimestamps,   \* parcel key -> best candidate so far
    range,              \* the getBitmapSatsRange call in progress
    probe,              \* a function applied on its own: arguments and value
    hook,               \* the state of a useInscriptions instance
    fetches,            \* its fetchFromAddress calls, one per calling effect
    ui,                 \* InscriptionsList: props, wallet and state as last set
    snap,               \* the values of the render last committed
    val,                \* a useBitmapValidation instance
    twin,               \* two validateBitmap calls with the same arguments
    remote              \* the answers the remote has given to these two

vars == <<pages, sat, vb, kids, tasks, parcelTimestamps, range, probe,
          hook, fetches, ui, snap, val, twin, remote>>

twinVars == <<twin, remote>>

libVars == <<pages, sat, vb, kids, tasks, parcelTimestamps, range, probe,
             twinVars>>

hookVars == <<hook, fetches, ui, snap, val>>

nonTwinVars == <<sat, vb, kids, tasks, parcelTimestamps, range, probe,
                 hookVars>>

satVars == <<pages, sat>>

runVars == <<vb, kids, tasks, parcelTimestamps>>

callVars == <<range, probe, hookVars, twinVars>>

\* the upper limit taken one too high
SatRangeError_off_by_one(n) == n < 0 \/ n > BitmapLimit

\* the thrown branch of getBitmapSat's range check
SatRangeError(n) == n < 0 \/ n > MaxBitmap

PageOf(n) == n \div PageSize

\* the cache test finding every page missing
PageMissing_always(cache, page) == TRUE

\* !pages[page]: the page has not yet been fetched and cached
PageMissing(cache, page) == cache[page] = "unset"

\* pages[page][bitmapNumber % 100000] of a decoded page, kept symbolic
SatValue(n) == <<PageOf(n), n % PageSize>>

satIndices ==
    [n \in {92871, 92970, 123132, 365518, 700181, 826151, 827151, 828151,
            828239, 828661, 829151, 830151, 832104, 832249, 832252, 832385,
            833067, 833101, 833105, 833109, 833121, 834030, 834036, 834051,
            834073, 836151, 837115, 837120, 837151, 837183, 837188, 838058,
            838068, 838076, 838096, 838151, 838821, 839151, 839377, 839378,
            839382, 839397, 840151, 841151, 842151, 845151} |->
        CASE n \in {832104, 832249, 832252, 834030, 834036, 837115, 837120,
                    837188, 838068, 838076, 839378, 839382} -> 2
          [] n \in {833101, 837183} -> 3
          [] n \in {832385, 833105, 833109, 834073} -> 4
          [] n = 838058 -> 5
          [] n = 833121 -> 8
          [] n = 834051 -> 17
          [] OTHER -> 1]

\* the lookup answering 1 for a number that is not in the table
getBitmapSatIndex_default_one(n) ==
    IF n \in DOMAIN satIndices THEN satIndices[n] ELSE 1

getBitmapSatIndex(n) == IF n \in DOMAIN satIndices THEN satIndices[n] ELSE 0

\* getBitmapSat up to its first await: range check, page, cache test; an
\* uncached page issues the fetch of fillPage
getBitmapSat(c, n) ==
    /\ sat[c].pc = "idle"
    /\ vb.pc = "idle"
    /\ range.pc = "idle"
    /\ sat' = [sat EXCEPT ![c] =
         IF SatRangeError(n)
         THEN [pc |-> "done", n |-> n, outcome |-> "thrown",
               error |-> "range", value |-> <<>>]
         ELSE IF PageMissing(pages, PageOf(n))
         THEN [pc |-> "fillPage", n |-> n, outcome |-> "none",
               error |-> "none", value |-> <<>>]
         ELSE [pc |-> "done", n |-> n, outcome |-> "returned",
               error |-> "none", value |-> SatValue(n)]]
    /\ UNCHANGED <<pages, runVars, callVars>>

\* fillPage storing a page although the fetch or the parse failed
fillPage_stores_on_failure(c, ok) ==
    /\ sat[c].pc = "fillPage"
    /\ pages' = [pages EXCEPT ![PageOf(sat[c].n)] = "decoded"]
    /\ sat' = [sat EXCEPT ![c] =
         IF ok THEN [@ EXCEPT !.pc = "done", !.outcome = "returned",
                        !.value = SatValue(sat[c].n)]
         ELSE [@ EXCEPT !.pc = "done", !.outcome = "thrown",
                  !.error = "remote"]]
    /\ UNCHANGED <<runVars, callVars>>

\* the page document arrives: fillPage decodes and stores it, getBitmapSat
\* returns the entry; a failed fetch or parse throws and stores nothing
fillPage(c, ok) ==
    /\ sat[c].pc = "fillPage"
    /\ IF ok
       THEN /\ pages' = [pages EXCEPT ![PageOf(sat[c].n)] = "decoded"]
            /\ sat' = [sat EXCEPT ![c] = [@ EXCEPT !.pc = "done",
                          !.outcome = "returned", !.value = SatValue(sat[c].n)]]
            /\ UNCHANGED <<runVars, callVars>>
       ELSE /\ sat' = [sat EXCEPT ![c] = [@ EXCEPT !.pc = "done",
                          !.outcome = "thrown", !.error = "remote"]]
            /\ UNCHANGED <<pages, runVars, callVars>>

\* the caller consumes the settled promise
SatSettled(c) ==
    /\ sat[c].pc = "done"
    /\ sat' = [sat EXCEPT ![c] = IdleCall]
    /\ UNCHANGED <<pages, runVars, callVars>>

\* no call of the client is in progress
ClientIdle ==
    /\ vb.pc = "idle"
    /\ range.pc = "idle"
    /\ \A c \in Callers : sat[c].pc = "idle"

\* the ranges getBitmapSatsRange is asked for: within a page, across two
\* pages, one number, past either end of the domain, and end before start
RangeInputs ==
    {<<0, 2>>, <<99999, 100001>>, <<5, 5>>, <<839998, BitmapLimit>>,
     <<0 - 1, 1>>, <<3, 2>>}

IdleRange ==
    [pc |-> "idle", start |-> 0, end |-> 0, i |-> 0, arr |-> <<>>,
     fetched |-> FALSE, outcome |-> "none", error |-> "none"]

\* the count of the loop taken with an exclusive end
RangeTotal_exclusive(start, end) == end - start

\* const total = (end + 1) - start
RangeTotal(start, end) == (end + 1) - start

\* the loop of getBitmapSatsRange from r.i on, over the page cache `cache`,
\* up to the first getBitmapSat that has to fetch its page, throws, or to
\* the return of arr
RECURSIVE RangeLoop(_, _)
RangeLoop(r, cache) ==
    IF ~(r.i < r.start + RangeTotal(r.start, r.end))
    THEN [r EXCEPT !.pc = "done", !.outcome = "returned"]
    ELSE IF SatRangeError(r.i)
    THEN [r EXCEPT !.pc = "done", !.outcome = "thrown", !.error = "range"]
    ELSE IF PageMissing(cache, PageOf(r.i))
    THEN [r EXCEPT !.pc = "fillPage", !.fetched = TRUE]
    ELSE RangeLoop([r EXCEPT !.arr = Append(@, SatValue(r.i)), !.i = @ + 1],
                   cache)

getBitmapSatsRange(start, end) ==
    /\ ClientIdle
    /\ range' = RangeLoop([IdleRange EXCEPT !.pc = "loop", !.start = start,
                              !.end = end, !.i = start], pages)
    /\ UNCHANGED <<pages, sat, runVars, probe, hookVars, twinVars>>

\* the page document of the loop's getBitmapSat arrives
fillPageForRange(ok) ==
    /\ range.pc = "fillPage"
    /\ IF ok
       THEN /\ pages' = [pages EXCEPT ![PageOf(range.i)] = "decoded"]
            /\ range' = RangeLoop([range EXCEPT !.pc = "loop"], pages')
       ELSE /\ range' = [range EXCEPT !.pc = "done", !.outcome = "thrown",
                            !.error = "remote"]
            /\ UNCHANGED pages
    /\ UNCHANGED <<sat, runVars, probe, hookVars, twinVars>>

\* the caller consumes the settled promise
RangeSettled ==
    /\ range.pc = "done"
    /\ range' = IdleRange
    /\ UNCHANGED <<pages, sat, runVars, probe, hookVars, twinVars>>

\* ------------------------------------------------------------------------
\* The remote data service, as far as one validation run observes it
\* ------------------------------------------------------------------------
RootId == <<"r">>

OtherId == <<"x">>

\* the children of the root inscription, in the order the remote lists them
ChildIdList == << <<"b">>, <<"a">>, <<"a", "b">>, <<"c">> >>

RemoteChildren == SubSeq(ChildIdList, 1, MaxChildren)

Heights == {10, 20}

TxCounts == {2}

\* raw bodies /content/{id} may serve for a child
ChildBodies ==
    { <<"1", ".", "5">> \o DOT_BITMAP,
      <<"0", "1", ".", "5">> \o DOT_BITMAP,
      <<"1", "x", ".", "5">> \o DOT_BITMAP,
      <<"2", ".", "5">> \o DOT_BITMAP,
      <<"1", ".", "5">> \o DOT_BITMAP \o <<"\n">>,
      <<"1", ".", "0">> \o DOT_BITMAP,
      <<"x", ".", "5">> \o DOT_BITMAP,
      <<"-", "1", ".", "5">> \o DOT_BITMAP,
      <<"1", ".", "6">> \o DOT_BITMAP,
      <<"1", ".", "5">>,
      <<"1", ".", "5">> \o DOT_BITMAP \o <<".", "x">> }

\* raw bodies /content/{id} may serve for the root inscription
RootBodies ==
    { <<"5">> \o DOT_BITMAP,
      <<"0">> \o DOT_BITMAP \o <<"\n">>,
      <<"5", ".", "b", "i", "t">>,
      <<"1">> \o DOT_BITMAP }

\* answers of /r/sat/{sat}/at/{index}: a body with an id, a JSON body
\* without id (with a success or an error status), an error status with a
\* body that is not JSON, or no response at all
SatAnswers == {"id", "no_id", "error_json", "error_text", "network"}

\* answers of /r/children/{id}[/{page}] when `have` children were served
ChildrenAnswers(have) ==
    { [status |-> "ok", hasIds |-> TRUE,
       ids |-> SubSeq(RemoteChildren, have + 1, have + k), more |-> m] :
         k \in 0..(Len(RemoteChildren) - have), m \in BOOLEAN }
    \cup { [status |-> "ok", hasIds |-> FALSE, ids |-> <<>>, more |-> m] :
             m \in BOOLEAN }
    \cup { [status |-> st, hasIds |-> FALSE, ids |-> <<>>, more |-> FALSE] :
             st \in {"404", "500", "network"} }

\* the remote holds no record named "undefined"
RemoteKnows(id) == id # Undefined

\* ------------------------------------------------------------------------
\* lib/utils: the validation run
\* ------------------------------------------------------------------------
BitmapInputs == {0 - 1, 0, 5, 92871, BitmapLimit}

ExpectedIds == {Undefined, RootId, OtherId}

ParcelInputs == {1}

ExpectedParcelIds == {Undefined, <<"a">>}

ContentInputs ==
    { <<"5">> \o DOT_BITMAP,
      <<"1", ".", "5">> \o DOT_BITMAP,
      <<"5", ".", "0">> \o DOT_BITMAP,
      <<"5">>,
      <<"x">> \o DOT_BITMAP,
      <<"5">> \o DOT_BITMAP \o <<"\n">>,
      <<"1", ".", "2", ".", "5">> \o DOT_BITMAP,
      <<"8", "4", "0", "0", "0", "0">> \o DOT_BITMAP }

NoResult == [status |-> "none"]

\* the call in progress: its arguments, the locals of validateBitmap
\* (actualInscriptionId and whether it was assigned, content as a sequence
\* of at most one text, txCount, childrenInscriptions), the bitmapResult of
\* validateBitmapParcel, and how the call ended

IdleRun ==
    [pc |-> "idle", entry |-> "none", viaParcel |-> FALSE,
     bitmapNumber |-> 0, inscriptionId |-> Undefined,
     parcelNumber |-> 0, parcelInscriptionId |-> Undefined,
     actualInscriptionId |-> Undefined, txCount |-> <<>>,
     childrenInscriptions |-> <<>>,
     query |-> <<>>, outcome |-> "none", error |-> "none",
     value |-> Undefined, result |-> NoResult,
     contentArg |-> <<>>, idArg |-> Undefined, resolved |-> FALSE,
     content |-> <<>>, bitmapResult |-> NoResult]

IdleKids == [page |-> 0, children |-> <<>>, outcome |-> "none", log |-> <<>>]

\* the two thrown branches of getBitmap's argument check
BitmapRangeError(n) == n < 0 \/ n >= BitmapLimit

\* a BitmapValidationResult; absent details are Undefined or empty
Result(status, message, r, id, parcels, children) ==
    [status |-> status, message |-> message,
     bitmapNumber |-> r.bitmapNumber, inscriptionId |-> id,
     hasParcel |-> FALSE, parcelNumber |-> 0, isParcel |-> FALSE,
     validParcels |-> parcels, allChildren |-> children]

\* validateBitmapParcel after validateBitmap(bitmapNumber) has returned
ParcelResult(r, bitmapResult) ==
    LET wanted == ToString(r.parcelNumber) \o <<".">>
                    \o ToString(r.bitmapNumber) \o DOT_BITMAP
        found == {p \in bitmapResult.validParcels : p.content = wanted}
        hit == found # {}
        targetParcel == CHOOSE p \in found : TRUE
        base == [bitmapResult EXCEPT !.hasParcel = TRUE,
                    !.parcelNumber = r.parcelNumber, !.isParcel = TRUE]
    IN IF bitmapResult.status # "valid" THEN base
       ELSE IF Truthy(r.parcelInscriptionId) /\ hit
               /\ targetParcel.id # r.parcelInscriptionId
       THEN [base EXCEPT !.status = "invalid", !.message = "parcel_id_mismatch",
                !.inscriptionId = r.parcelInscriptionId,
                !.validParcels = {}, !.allChildren = <<>>]
       ELSE IF ~hit
       THEN [base EXCEPT !.status = "invalid", !.message = "parcel_not_found",
                !.validParcels = {}, !.allChildren = <<>>]
       ELSE [base EXCEPT !.status = "valid", !.message = "parcel_valid",
                !.inscriptionId = targetParcel.id,
                !.validParcels = {targetParcel}, !.allChildren = <<>>]

\* validateBitmap returns bitmapResult; a validateBitmapParcel frame above
\* it continues in the same turn, validateBitmapContent passes it through
Return(r, bitmapResult) ==
    [r EXCEPT !.pc = "done", !.outcome = "returned",
        !.bitmapResult = bitmapResult,
        !.result = IF r.viaParcel THEN ParcelResult(r, bitmapResult)
                   ELSE bitmapResult]

\* the catch block rethrowing instead of returning a result
Caught_rethrows(r, kind) ==
    [r EXCEPT !.pc = "done", !.outcome = "thrown", !.error = kind]

\* the catch block of validateBitmap
Caught(r, kind) ==
    Return(r, Result("invalid", "error", r, r.inscriptionId, {}, <<>>))

\* getBitmap swallowing the error and returning nothing
Raise_returns_undefined(r, kind) ==
    IF r.entry = "getBitmap"
    THEN [r EXCEPT !.pc = "done", !.outcome = "returned", !.value = Undefined]
    ELSE Caught(r, kind)

\* an error raised below validateBitmap's try, or out of getBitmap itself
Raise(r, kind) ==
    IF r.entry = "getBitmap"
    THEN [r EXCEPT !.pc = "done", !.outcome = "thrown", !.error = kind]
    ELSE Caught(r, kind)

\* getBitmap up to its first await: argument check, then getBitmapSat's
\* range check, page and cache test inside getBitmapInscriptionId
Resolve(r) ==
    LET n == r.bitmapNumber
    IN IF BitmapRangeError(n) \/ SatRangeError(n) THEN Raise(r, "range")
       ELSE IF PageMissing(pages, PageOf(n)) THEN [r EXCEPT !.pc = "fillPage"]
       ELSE [r EXCEPT !.pc = "satQuery",
                !.query = <<SatValue(n), getBitmapSatIndex(n)>>]

getBitmap(n) ==
    /\ ClientIdle
    /\ vb' = Resolve([IdleRun EXCEPT !.entry = "getBitmap", !.bitmapNumber = n])
    /\ UNCHANGED <<satVars, kids, tasks, parcelTimestamps, callVars>>

validateBitmap(n, id) ==
    /\ ClientIdle
    /\ vb' = Resolve([IdleRun EXCEPT !.entry = "validateBitmap",
                         !.bitmapNumber = n, !.inscriptionId = id])
    /\ UNCHANGED <<satVars, kids, tasks, parcelTimestamps, callVars>>

validateBitmapParcel(n, p, id) ==
    /\ ClientIdle
    /\ vb' = Resolve([IdleRun EXCEPT !.entry = "validateBitmapParcel",
                         !.viaParcel = TRUE, !.bitmapNumber = n,
                         !.parcelNumber = p, !.parcelInscriptionId = id])
    /\ UNCHANGED <<satVars, kids, tasks, parcelTimestamps, callVars>>

\* the two captured groups taken in the other order
ContentMatch_swapped(content) ==
    LET parts == Split(content)
    IN IF Len(parts) = 2 /\ AllDigits(parts[1]) /\ parts[2] = BITMAP
       THEN <<parts[1]>>
       ELSE IF Len(parts) = 3 /\ AllDigits(parts[1]) /\ AllDigits(parts[2])
               /\ parts[3] = BITMAP
       THEN <<parts[2], parts[1]>>
       ELSE <<>>

\* content.match(/^(\d+)(?:\.(\d+))?\.bitmap$/): the captured digit groups,
\* or the empty sequence when there is no match
ContentMatch(content) ==
    LET parts == Split(content)
    IN IF Len(parts) = 2 /\ AllDigits(parts[1]) /\ parts[2] = BITMAP
       THEN <<parts[1]>>
       ELSE IF Len(parts) = 3 /\ AllDigits(parts[1]) /\ AllDigits(parts[2])
               /\ parts[3] = BITMAP
       THEN <<parts[1], parts[2]>>
       ELSE <<>>

validateBitmapContent(content, id) ==
    LET match == ContentMatch(content)
        base == [IdleRun EXCEPT !.entry = "validateBitmapContent",
                    !.contentArg = content, !.idArg = id]
    IN /\ ClientIdle
       /\ vb' = IF match = <<>>
                THEN [base EXCEPT !.pc = "done", !.outcome = "returned",
                         !.result = [status |-> "invalid",
                                     message |-> "bad_format"]]
                ELSE IF Len(match) = 2
                THEN Resolve([base EXCEPT !.viaParcel = TRUE,
                                 !.parcelNumber = ParseInt(match[1]).val,
                                 !.bitmapNumber = ParseInt(match[2]).val,
                                 !.parcelInscriptionId = id])
                ELSE Resolve([base EXCEPT
                                 !.bitmapNumber = ParseInt(match[1]).val,
                                 !.inscriptionId = id])
       /\ UNCHANGED <<satVars, kids, tasks, parcelTimestamps, callVars>>

\* validateBitmap not comparing the resolved id with the expected one
Resolved_ignores_expected(r, id) ==
    IF r.entry = "getBitmap"
    THEN [r EXCEPT !.pc = "done", !.outcome = "returned", !.value = id]
    ELSE [r EXCEPT !.actualInscriptionId = id, !.resolved = TRUE,
             !.pc = "details"]

\* getBitmap has resolved id: getBitmap itself returns it, validateBitmap
\* compares it with the expected id and asks for the inscription details
Resolved(r, id) ==
    IF r.entry = "getBitmap"
    THEN [r EXCEPT !.pc = "done", !.outcome = "returned", !.value = id]
    ELSE IF Truthy(r.inscriptionId) /\ id # r.inscriptionId
    THEN Return([r EXCEPT !.actualInscriptionId = id, !.resolved = TRUE],
                Result("invalid", "id_mismatch", r, id, {}, <<>>))
    ELSE [r EXCEPT !.actualInscriptionId = id, !.resolved = TRUE,
             !.pc = "details"]

\* the page document of the run's getBitmapSat arrives
fillPageForBitmap(ok) ==
    /\ vb.pc = "fillPage"
    /\ IF ok
       THEN /\ pages' = [pages EXCEPT ![PageOf(vb.bitmapNumber)] = "decoded"]
            /\ vb' = [vb EXCEPT !.pc = "satQuery",
                        !.query = <<SatValue(vb.bitmapNumber),
                                    getBitmapSatIndex(vb.bitmapNumber)>>]
       ELSE /\ vb' = Raise(vb, "remote")
            /\ UNCHANGED pages
    /\ UNCHANGED <<sat, kids, tasks, parcelTimestamps, callVars>>

\* what getBitmapInscriptionId does with the answer of /r/sat/../at/..:
\* response.json() throws on a body that is not JSON, data.id is returned
\* as it is, present or not
SatAnswerId(answer) ==
    [thrown |-> answer \in {"error_text", "network"},
     id |-> IF answer = "id" THEN RootId ELSE Undefined]

getBitmapInscriptionId(answer) ==
    /\ vb.pc = "satQuery"
    /\ vb' = IF SatAnswerId(answer).thrown THEN Raise(vb, "remote")
             ELSE Resolved(vb, SatAnswerId(answer).id)
    /\ UNCHANGED <<satVars, kids, tasks, parcelTimestamps, callVars>>

\* getInscriptionDetails of the root inscription
rootInscriptionDetails(ok) ==
    /\ vb.pc = "details"
    /\ ok => RemoteKnows(vb.actualInscriptionId)
    /\ vb' = IF ok THEN [vb EXCEPT !.pc = "content"] ELSE Raise(vb, "remote")
    /\ UNCHANGED <<satVars, kids, tasks, parcelTimestamps, callVars>>

\* the content test looking at the suffix only
RootContentOk_suffix_only(content, n) == EndsWith(content, DOT_BITMAP)

\* the content test of validateBitmap
RootContentOk(content, n) ==
    Includes(content, ToString(n)) /\ EndsWith(content, DOT_BITMAP)

\* fetchInscriptionContent of the root inscription and the content test
rootContent(ok, body) ==
    /\ vb.pc = "content"
    /\ vb' = IF ~ok THEN Raise(vb, "remote")
             ELSE IF ~RootContentOk(Trim(body), vb.bitmapNumber)
             THEN Return([vb EXCEPT !.content = <<Trim(body)>>],
                         Result("invalid", "bad_content", vb,
                                vb.actualInscriptionId, {}, <<>>))
             ELSE IF vb.bitmapNumber # 0
             THEN [vb EXCEPT !.content = <<Trim(body)>>, !.pc = "blockinfo"]
             ELSE [vb EXCEPT !.content = <<Trim(body)>>, !.pc = "children"]
    /\ UNCHANGED <<satVars, kids, tasks, parcelTimestamps, callVars>>

\* a failed block-info request ending the run in the catch block
getBlockInfo_failure_ends_run(ok, count) ==
    /\ vb.pc = "blockinfo"
    /\ vb' = IF ok THEN [vb EXCEPT !.pc = "children", !.txCount = count]
             ELSE Caught(vb, "remote")
    /\ UNCHANGED <<satVars, kids, tasks, parcelTimestamps, callVars>>

\* getBlockInfo: a failure, or a body without transaction_count, leaves
\* txCount undefined
getBlockInfo(ok, count) ==
    /\ vb.pc = "blockinfo"
    /\ vb' = [vb EXCEPT !.pc = "children",
                 !.txCount = IF ok THEN count ELSE <<>>]
    /\ UNCHANGED <<satVars, kids, tasks, parcelTimestamps, callVars>>

\* isValidParcel once the content has arrived
isValidParcel(content, parentId, txCount) ==
    LET parts == Split(content)
        parcelNum == ParseInt(parts[1])
    IN /\ Len(parts) = 3
       /\ parts[3] = BITMAP
       /\ parts[2] = ToString(parentId)
       /\ ~parcelNum.nan
       /\ ~(parcelNum.val < 0)
       /\ ~(txCount # <<>> /\ parcelNum.val >= txCount[1])

\* the key of parcelTimestamps: validParcel.content.split('.')[0]
ParcelKey(content) == Split(content)[1]

\* the candidate that arrived first is kept
Better_keeps_first(details, current) == FALSE

\* the replacement test of the tie-break
Better(details, current) ==
    \/ details.height < current.height
    \/ /\ details.height = current.height
       /\ StrLess(details.id, current.id)

TieBreak(pt, validParcel, details) ==
    LET key == ParcelKey(validParcel.content)
    IN IF key \notin DOMAIN pt \/ Better(details, pt[key])
       THEN [k \in DOMAIN pt \cup {key} |->
               IF k = key
               THEN [id |-> validParcel.id, content |-> validParcel.content,
                     height |-> details.height]
               ELSE pt[k]]
       ELSE pt

\* the for-in loop that collects the winners
Collect(pt) == {pt[k] : k \in DOMAIN pt}

AllFulfilled(ts) == \A i \in DOMAIN ts : ts[i].pc = "fulfilled"

AllSettled(ts) == \A i \in DOMAIN ts : ts[i].pc \in {"fulfilled", "rejected"}

\* the valid result listing only the children whose fetches succeeded
Awaited_drops_failed(r, ts, pt) ==
    LET Fetched(id) == \A i \in DOMAIN ts : ts[i].id = id => ts[i].failed = "none"
    IN IF r.pc # "parcels" THEN r
       ELSE IF \E i \in DOMAIN ts : ts[i].pc = "rejected"
       THEN Caught(r, "remote")
       ELSE IF AllFulfilled(ts)
       THEN Return(r, Result("valid", "valid", r, r.actualInscriptionId,
                             Collect(pt),
                             SelectSeq(r.childrenInscriptions, Fetched)))
       ELSE r

\* await Promise.all(validationPromises) and what follows it
Awaited(r, ts, pt) ==
    IF r.pc # "parcels" THEN r
    ELSE IF \E i \in DOMAIN ts : ts[i].pc = "rejected" THEN Caught(r, "remote")
    ELSE IF AllFulfilled(ts)
    THEN Return(r, Result("valid", "valid", r, r.actualInscriptionId,
                          Collect(pt), r.childrenInscriptions))
    ELSE r

\* does the failed page request end getChildrenInscriptions with an error
ChildrenPageThrows(page, answer) == FALSE

\* the loop not looking at the more flag
ChildrenPageBreaks_ignores_more(page, answer) ==
    \/ answer.status # "ok"
    \/ ~answer.hasIds
    \/ answer.ids = <<>>

\* does this answer end the pagination loop
ChildrenPageBreaks(page, answer) ==
    \/ answer.status # "ok"
    \/ ~answer.hasIds
    \/ answer.ids = <<>>
    \/ ~answer.more

\* the ids this answer adds to children
ChildrenPageIds(answer) ==
    IF answer.status = "ok" /\ answer.hasIds THEN answer.ids ELSE <<>>

\* one turn of the loop of getChildrenInscriptions: the answer to the
\* request for kids.page arrives; the loop asks for the next page or ends
getChildrenInscriptions(answer) ==
    LET page == kids.page
        log == Append(kids.log, [page |-> page, status |-> answer.status,
                                 hasIds |-> answer.hasIds, ids |-> answer.ids,
                                 more |-> answer.more])
    IN /\ vb.pc = "children"
       /\ IF ChildrenPageThrows(page, answer)
          THEN /\ kids' = [kids EXCEPT !.outcome = "thrown", !.log = log]
               /\ vb' = [vb EXCEPT !.pc = "childrenDone"]
          ELSE IF ChildrenPageBreaks(page, answer)
          THEN /\ kids' = [kids EXCEPT !.outcome = "returned", !.log = log,
                              !.children = @ \o ChildrenPageIds(answer)]
               /\ vb' = [vb EXCEPT !.pc = "childrenDone"]
          ELSE /\ kids' = [kids EXCEPT !.page = page + 1, !.log = log,
                              !.children = @ \o ChildrenPageIds(answer)]
               /\ UNCHANGED vb
       /\ UNCHANGED <<satVars, tasks, parcelTimestamps, callVars>>

\* validateBitmap continues after getChildrenInscriptions: every child is
\* mapped to its validation, which issues the child's content request
validateParcels ==
    LET children == kids.children
        ts == [i \in 1..Len(children) |->
                 [id |-> children[i], pc |-> "content", failed |-> "none",
                  parcel |-> <<>>, height |-> 0]]
    IN /\ vb.pc = "childrenDone"
       /\ kids' = IdleKids
       /\ IF kids.outcome = "thrown"
          THEN /\ vb' = Caught(vb, "remote")
               /\ UNCHANGED <<tasks, parcelTimestamps>>
          ELSE /\ tasks' = ts
               /\ parcelTimestamps' = <<>>
               /\ vb' = Awaited([vb EXCEPT !.pc = "parcels",
                                    !.childrenInscriptions = children],
                                ts, <<>>)
       /\ UNCHANGED <<satVars, callVars>>

\* the content of child i arrives (or its fetch fails): isValidParcel
childContent(i, ok, body) ==
    LET valid == ok /\ isValidParcel(Trim(body), vb.bitmapNumber, vb.txCount)
        ts == [tasks EXCEPT ![i] =
                 IF valid
                 THEN [@ EXCEPT !.pc = "details",
                          !.parcel = <<[id |-> tasks[i].id,
                                        content |-> Trim(body)]>>]
                 ELSE [@ EXCEPT !.pc = "fulfilled",
                          !.failed = IF ok THEN "none" ELSE "content"]]
    IN /\ i \in DOMAIN tasks
       /\ tasks[i].pc = "content"
       /\ tasks' = ts
       /\ vb' = Awaited(vb, ts, parcelTimestamps)
       /\ UNCHANGED <<satVars, kids, parcelTimestamps, callVars>>

\* the details of child i arrive (or their fetch fails): the tie-break
childDetails(i, ok, height) ==
    LET ts == [tasks EXCEPT ![i] =
                 IF ok THEN [@ EXCEPT !.pc = "fulfilled", !.height = height]
                 ELSE [@ EXCEPT !.pc = "rejected", !.failed = "details"]]
        pt == IF ok
              THEN TieBreak(parcelTimestamps, tasks[i].parcel[1],
                            [id |-> tasks[i].id, height |-> height])
              ELSE parcelTimestamps
    IN /\ i \in DOMAIN tasks
       /\ tasks[i].pc = "details"
       /\ tasks' = ts
       /\ parcelTimestamps' = pt
       /\ vb' = Awaited(vb, ts, pt)
       /\ UNCHANGED <<satVars, kids, callVars>>

\* the client consumes the settled call; nothing of the run is kept
Settled ==
    /\ vb.pc = "done"
    /\ AllSettled(tasks)
    /\ vb' = IdleRun
    /\ kids' = IdleKids
    /\ tasks' = <<>>
    /\ parcelTimestamps' = <<>>
    /\ UNCHANGED <<satVars, callVars>>

\* ------------------------------------------------------------------------
\* useInscriptions, and the effects of InscriptionsList that call it
\* ------------------------------------------------------------------------
BATCH_SIZE == 20

\* the two effects that call fetchFromAddress
FetchCallers == {"handleWalletChange", "initializeFetch"}

\* what useLaserEyes returns: no wallet, a wallet connecting, or a wallet
\* connected with one of two accounts
WalletStates ==
    {[address |-> Undefined, provider |-> FALSE, isConnecting |-> FALSE],
     [address |-> Undefined, provider |-> TRUE, isConnecting |-> TRUE],
     [address |-> <<"A">>, provider |-> TRUE, isConnecting |-> FALSE],
     [address |-> <<"B">>, provider |-> TRUE, isConnecting |-> FALSE]}

\* lengths of the UTXO list the address request answers with
UtxoCounts == {0, BATCH_SIZE + 1}

\* what processUtxoBatch makes of the UTXOs of a batch
UtxoTypes == {"inscription", "rune", "cardinal"}

\* what a failed address request rejects with: an Error, or another value
Rejections ==
    {[isError |-> TRUE, message |-> "Network Error"],
     [isError |-> FALSE, message |-> ""]}

Null == "null"

\* err instanceof Error ? err.message : 'Unknown error occurred'
ErrorMessage(err) ==
    IF err.isError THEN err.message ELSE "Unknown error occurred"

\* the state of the hook; a list is kept as its length
IdleHook ==
    [isLoading |-> FALSE, error |-> Null, inscriptions |-> 0, runes |-> 0,
     cardinals |-> 0, total |-> 0, processedCount |-> 0]

\* a fetchFromAddress call: its locals, and what it has done so far
\* (requests sent, delays waited, batches processed, how it ended); the
\* locals are dropped when the call ends
IdleFetch ==
    [pc |-> "idle", normalizedAddress |-> Undefined, retries |-> 0,
     utxos |-> 0, i |-> 0, inscribedUtxos |-> 0, runeUtxos |-> 0,
     cardinalUtxos |-> 0, attempts |-> 0, delays |-> 0, batches |-> 0,
     outcome |-> "none", message |-> Null]

\* the component before its first render
Unmounted ==
    [mounted |-> FALSE, walletAddress |-> Undefined, provider |-> FALSE,
     isConnecting |-> FALSE, currentAddress |-> Undefined,
     hasInitialFetch |-> FALSE, isLoading |-> FALSE]

IdleUi ==
    [walletAddress |-> Undefined, provider |-> FALSE, isConnecting |-> FALSE,
     currentAddress |-> Undefined, hasInitialFetch |-> FALSE]

resetState(h) ==
    [h EXCEPT !.inscriptions = 0, !.runes = 0, !.cardinals = 0,
              !.total = 0, !.error = Null]

\* the catch block of fetchFromAddress
fetchCatch(h, err) == resetState([h EXCEPT !.error = ErrorMessage(err)])

\* the finally block of fetchFromAddress
fetchFinally(h) == [h EXCEPT !.isLoading = FALSE, !.processedCount = 0]

\* the loop going on after a failure that used up the retries
RetriesExhausted_never(retries) == FALSE

\* if (retries === 0) throw error
RetriesExhausted(retries) == retries = 0

\* fetchFromAddress up to its first await, called by effect c with the
\* isLoading its closure was rendered with; w.returned tells that a call
\* returned at once
fetchFromAddress(w, c, walletAddress, isLoading) ==
    IF ~Truthy(walletAddress) \/ isLoading
    THEN [w EXCEPT !.returned = TRUE]
    ELSE [w EXCEPT !.hook.isLoading = TRUE, !.hook.processedCount = 0,
                   !.fetches[c] = [IdleFetch EXCEPT !.pc = "utxo",
                        !.normalizedAddress = Trim(walletAddress),
                        !.retries = 3, !.attempts = 1]]

\* the effects, run with the values r of the render they belong to
handleWalletChange(w, r) ==
    IF ~Truthy(r.currentAddress) \/ ~r.provider \/ r.isConnecting THEN w
    ELSE IF ~r.hasInitialFetch
    THEN fetchFromAddress(w, "handleWalletChange", r.currentAddress,
                          r.isLoading)
    ELSE w

walletAddressProvided(w, r) ==
    IF Truthy(r.walletAddress)
    THEN [w EXCEPT !.ui.currentAddress = r.walletAddress,
                   !.ui.hasInitialFetch = FALSE,
                   !.hook = resetState(@)]
    ELSE w

initializeFetch(w, r) ==
    IF ~Truthy(r.walletAddress) THEN w
    ELSE IF ~r.hasInitialFetch
    THEN fetchFromAddress(w, "initializeFetch", r.walletAddress, r.isLoading)
    ELSE w

\* what the next render sees
Rendered ==
    [mounted |-> TRUE, walletAddress |-> ui.walletAddress,
     provider |-> ui.provider, isConnecting |-> ui.isConnecting,
     currentAddress |-> ui.currentAddress,
     hasInitialFetch |-> ui.hasInitialFetch, isLoading |-> hook.isLoading]

\* one of the values in deps differs from the previous render's
DepsChanged(r, deps) ==
    ~snap.mounted \/ \E d \in deps : r[d] # snap[d]

\* a render is committed and the effects whose dependencies changed run in
\* the order they are declared; fetchFromAddress is a new function when
\* isLoading changed; a call that returned at once lets its caller go on
\* to setHasInitialFetch(true) after the effects
Commit ==
    LET r == Rendered
        w0 == [hook |-> hook, fetches |-> fetches, ui |-> ui,
               returned |-> FALSE]
        w1 == IF DepsChanged(r, {"currentAddress", "provider", "isConnecting",
                                 "hasInitialFetch", "isLoading"})
              THEN handleWalletChange(w0, r) ELSE w0
        w2 == IF DepsChanged(r, {"walletAddress"})
              THEN walletAddressProvided(w1, r) ELSE w1
        w3 == IF DepsChanged(r, {"walletAddress", "hasInitialFetch",
                                 "isLoading"})
              THEN initializeFetch(w2, r) ELSE w2
    IN /\ r # snap
       /\ snap' = r
       /\ hook' = w3.hook
       /\ fetches' = w3.fetches
       /\ ui' = IF w3.returned THEN [w3.ui EXCEPT !.hasInitialFetch = TRUE]
                ELSE w3.ui
       /\ UNCHANGED <<libVars, val>>

\* the wallet: page.tsx passes its address as the walletAddress prop; an
\* account is changed only while no fetch is under way
useLaserEyes(wallet) ==
    /\ \A c \in FetchCallers : fetches[c].pc = "idle"
    /\ ui' = [ui EXCEPT !.walletAddress = wallet.address,
                        !.provider = wallet.provider,
                        !.isConnecting = wallet.isConnecting]
    /\ ui' # ui
    /\ UNCHANGED <<hook, fetches, snap, libVars, val>>

\* call c ends: the finally block, then the caller's setHasInitialFetch
EndFetch(c, h, f, outcome, message) ==
    /\ hook' = fetchFinally(h)
    /\ fetches' = [fetches EXCEPT ![c] = [IdleFetch EXCEPT
                        !.attempts = f.attempts, !.delays = f.delays,
                        !.batches = f.batches,
                        !.outcome = outcome, !.message = message]]
    /\ ui' = [ui EXCEPT !.hasInitialFetch = TRUE]

\* the address request of call c is answered
getAddressTxsUtxo(c, ok, count, err) ==
    LET f == fetches[c]
        failed == [f EXCEPT !.retries = @ - 1]
    IN /\ f.pc = "utxo"
       /\ IF ok
          THEN IF 0 < count
               THEN /\ fetches' = [fetches EXCEPT ![c].pc = "batch",
                                                  ![c].utxos = count]
                    /\ UNCHANGED <<hook, ui>>
               ELSE EndFetch(c, hook, f, "fulfilled", Null)
          ELSE IF RetriesExhausted(failed.retries)
               THEN EndFetch(c, fetchCatch(hook, err), failed, "failed",
                             ErrorMessage(err))
               ELSE /\ fetches' = [fetches EXCEPT ![c] =
                           [failed EXCEPT !.pc = "delay", !.delays = @ + 1]]
                    /\ UNCHANGED <<hook, ui>>
       /\ UNCHANGED <<snap, libVars, val>>

\* the timer of the delay fires and the loop tests retries again
retryDelay(c) ==
    LET f == fetches[c]
    IN /\ f.pc = "delay"
       /\ IF f.retries > 0
          THEN /\ fetches' = [fetches EXCEPT ![c].pc = "utxo",
                                             ![c].attempts = @ + 1]
               /\ UNCHANGED <<hook, ui>>
          ELSE EndFetch(c, hook, f, "fulfilled", Null)
       /\ UNCHANGED <<snap, libVars, val>>

\* the requests of a batch have settled: every UTXO has a type
processUtxoBatch(c, type) ==
    LET f == fetches[c]
        rest == f.utxos - f.i
        batch == IF rest < BATCH_SIZE THEN rest ELSE BATCH_SIZE
    IN /\ f.pc = "batch"
       /\ fetches' = [fetches EXCEPT ![c] = [f EXCEPT !.pc = "contents",
               !.batches = @ + 1,
               !.inscribedUtxos = IF type = "inscription" THEN @ + batch ELSE @,
               !.runeUtxos = IF type = "rune" THEN @ + batch ELSE @,
               !.cardinalUtxos = IF type = "cardinal" THEN @ + batch ELSE @]]
       /\ hook' = [hook EXCEPT !.processedCount = @ + batch]
       /\ UNCHANGED <<ui, snap, libVars, val>>

\* the contents have been fetched: the lists are set, the loop goes on
fetchInscriptionContents(c) ==
    LET f == fetches[c]
        h == [hook EXCEPT !.inscriptions = f.inscribedUtxos,
                          !.runes = f.runeUtxos,
                          !.cardinals = f.cardinalUtxos,
                          !.total = f.inscribedUtxos]
    IN /\ f.pc = "contents"
       /\ IF f.i + BATCH_SIZE < f.utxos
          THEN /\ fetches' = [fetches EXCEPT ![c].pc = "batch",
                                             ![c].i = @ + BATCH_SIZE]
               /\ hook' = h
               /\ UNCHANGED ui
          ELSE EndFetch(c, h, f, "fulfilled", Null)
       /\ UNCHANGED <<snap, libVars, val>>

\* ------------------------------------------------------------------------
\* useBitmapValidation
\* ------------------------------------------------------------------------
\* validations one hook instance has under way at a time
MaxInFlight == 2

\* the content and inscriptionId options the hook is rendered with
HookContents == {Undefined, <<"1">> \o DOT_BITMAP, <<"2">> \o DOT_BITMAP}

HookIds == {Undefined, RootId}

\* the status validateBitmapContent resolves with
Verdicts == {"valid", "invalid"}

NO_ID == <<"n", "o", "-", "i", "d">>

\* `${content}:${inscriptionId || 'no-id'}`
cacheKey(content, inscriptionId) ==
    content \o <<":">>
        \o (IF Truthy(inscriptionId) THEN inscriptionId ELSE NO_ID)

\* validationResult when it is null
NullResult == [status |-> "null"]

\* the hook before its first render; inflight holds the arguments of the
\* validateBitmapContent calls not yet settled, oldest first
IdleValidation ==
    [mounted |-> FALSE, content |-> Undefined, inscriptionId |-> Undefined,
     autoValidate |-> TRUE, validationResult |-> NullResult,
     isValidating |-> FALSE, error |-> Null, validationCache |-> <<>>,
     inflight |-> <<>>]

\* the result of validateBitmapContent(content, inscriptionId)
ValidationResult(status, content, inscriptionId) ==
    [status |-> status, args |-> <<content, inscriptionId>>]

\* validateNow up to its await, in the closure of the render v
validateNow(v) ==
    IF ~Truthy(v.content) THEN [v EXCEPT !.validationResult = NullResult]
    ELSE LET key == cacheKey(v.content, v.inscriptionId)
         IN IF key \in DOMAIN v.validationCache
            THEN [v EXCEPT !.validationResult = v.validationCache[key]]
            ELSE [v EXCEPT !.isValidating = TRUE, !.error = Null,
                     !.inflight = Append(@, [content |-> v.content,
                                     inscriptionId |-> v.inscriptionId])]

\* the hook is rendered with new options and its effect runs
useBitmapValidation(content, inscriptionId, autoValidate) ==
    LET v == [val EXCEPT !.mounted = TRUE, !.content = content,
                         !.inscriptionId = inscriptionId,
                         !.autoValidate = autoValidate]
    IN /\ v # val
       /\ Len(val.inflight) < MaxInFlight
       /\ val' = IF autoValidate /\ Truthy(content) THEN validateNow(v) ELSE v
       /\ UNCHANGED <<hook, fetches, ui, snap, libVars>>

\* the k-th validation under way resolves: the rest of validateNow, in
\* the closure of the render that started it
validationSettled(k, status) ==
    /\ k \in 1..Len(val.inflight)
    /\ LET call == val.inflight[k]
           key == cacheKey(call.content, call.inscriptionId)
           result == ValidationResult(status, call.content,
                                      call.inscriptionId)
           cache == val.validationCache
       IN val' = [val EXCEPT
               !.validationCache =
                   [q \in DOMAIN cache \cup {key} |->
                       IF q = key THEN result ELSE cache[q]],
               !.validationResult = result,
               !.isValidating = FALSE,
               !.inflight = [j \in 1..(Len(@) - 1) |->
                                IF j < k THEN @[j] ELSE @[j + 1]]]
    /\ UNCHANGED <<hook, fetches, ui, snap, libVars>>

\* ------------------------------------------------------------------------
\* Two validateBitmap calls with the same arguments, against a remote whose
\* answers do not change
\* ------------------------------------------------------------------------
Runs == {1, 2}

\* the arguments of the two calls
TwinInputs == {<<5, Undefined>>, <<5, OtherId>>}

\* what the remote may hold: the answer of the sat lookup, the body of the
\* root inscription, the bodies and heights of the children
TwinSatAnswers == {"id", "network"}

TwinRootBodies == {<<"5">> \o DOT_BITMAP, <<"1">> \o DOT_BITMAP}

TwinChildBodies ==
    { <<"1", ".", "5">> \o DOT_BITMAP,
      <<"0", "1", ".", "5">> \o DOT_BITMAP }

\* the children listed on one page, or the listing failing
TwinChildrenAnswers(have) ==
    {a \in ChildrenAnswers(have) :
        \/ a.status = "500"
        \/ a.hasIds /\ ~a.more /\ Len(a.ids) = Len(RemoteChildren) - have}

\* a request: what is asked for, of which inscription or page
Request(kind, id) == [kind |-> kind, id |-> id]

\* the remote answers request q with a: as it did before, if it did
Stable(q, a) == q \in DOMAIN remote => remote[q] = a

Answered(q, a) ==
    [x \in DOMAIN remote \cup {q} |-> IF x = q THEN a ELSE remote[x]]

\* one call: the locals of validateBitmap and getChildrenInscriptions, the
\* child validations and the winner map; first is the child whose details
\* arrived first, concurrent tells that the other call was under way when
\* this one began
IdleTwin ==
    [vb |-> IdleRun, kids |-> IdleKids, tasks |-> <<>>,
     parcelTimestamps |-> <<>>, first |-> 0, concurrent |-> FALSE]

UnderWay(s) == ~(s.vb.pc \in {"idle", "done"})

\* what is still under way when the call has returned cannot change what
\* it returned, and is dropped
Dropped(s) ==
    IF s.vb.pc = "done"
    THEN [s EXCEPT !.tasks = <<>>, !.parcelTimestamps = <<>>,
                   !.kids = IdleKids]
    ELSE s

twinValidateBitmap(k, n, id) ==
    /\ twin[k].vb.entry = "none"
    /\ \A j \in Runs : twin[j].vb.entry # "none" =>
          twin[j].vb.bitmapNumber = n /\ twin[j].vb.inscriptionId = id
    /\ twin' = [twin EXCEPT ![k] = [@ EXCEPT
          !.vb = Resolve([IdleRun EXCEPT !.entry = "validateBitmap",
                             !.bitmapNumber = n, !.inscriptionId = id]),
          !.concurrent = \E j \in Runs : UnderWay(twin[j])]]
    /\ UNCHANGED <<pages, remote, nonTwinVars>>

twinFillPage(k, ok) ==
    LET r == twin[k].vb
        q == Request("page", ToString(PageOf(r.bitmapNumber)))
    IN /\ r.pc = "fillPage"
       /\ Stable(q, ok)
       /\ remote' = Answered(q, ok)
       /\ IF ok
          THEN /\ pages' = [pages EXCEPT ![PageOf(r.bitmapNumber)] = "decoded"]
               /\ twin' = [twin EXCEPT ![k].vb = [r EXCEPT !.pc = "satQuery",
                              !.query = <<SatValue(r.bitmapNumber),
                                          getBitmapSatIndex(r.bitmapNumber)>>]]
          ELSE /\ twin' = [twin EXCEPT ![k] = Dropped([@ EXCEPT
                              !.vb = Raise(r, "remote")])]
               /\ UNCHANGED pages
       /\ UNCHANGED nonTwinVars

twinSatAnswer(k, answer) ==
    LET r == twin[k].vb
        q == Request("sat", ToString(r.bitmapNumber))
    IN /\ r.pc = "satQuery"
       /\ Stable(q, answer)
       /\ remote' = Answered(q, answer)
       /\ twin' = [twin EXCEPT ![k] = Dropped([@ EXCEPT !.vb =
             IF SatAnswerId(answer).thrown THEN Raise(r, "remote")
             ELSE Resolved(r, SatAnswerId(answer).id)])]
       /\ UNCHANGED <<pages, nonTwinVars>>

twinRootDetails(k, ok) ==
    LET r == twin[k].vb
        q == Request("details", r.actualInscriptionId)
    IN /\ r.pc = "details"
       /\ ok => RemoteKnows(r.actualInscriptionId)
       /\ Stable(q, ok)
       /\ remote' = Answered(q, ok)
       /\ twin' = [twin EXCEPT ![k] = Dropped([@ EXCEPT !.vb =
             IF ok THEN [r EXCEPT !.pc = "content"] ELSE Raise(r, "remote")])]
       /\ UNCHANGED <<pages, nonTwinVars>>

twinRootContent(k, ok, body) ==
    LET r == twin[k].vb
        q == Request("content", r.actualInscriptionId)
        a == [ok |-> ok, body |-> body]
    IN /\ r.pc = "content"
       /\ Stable(q, a)
       /\ remote' = Answered(q, a)
       /\ twin' = [twin EXCEPT ![k] = Dropped([@ EXCEPT !.vb =
             IF ~ok THEN Raise(r, "remote")
             ELSE IF ~RootContentOk(Trim(body), r.bitmapNumber)
             THEN Return([r EXCEPT !.content = <<Trim(body)>>],
                         Result("invalid", "bad_content", r,
                                r.actualInscriptionId, {}, <<>>))
             ELSE IF r.bitmapNumber # 0
             THEN [r EXCEPT !.content = <<Trim(body)>>, !.pc = "blockinfo"]
             ELSE [r EXCEPT !.content = <<Trim(body)>>, !.pc = "children"]])]
       /\ UNCHANGED <<pages, nonTwinVars>>

twinBlockInfo(k, ok, count) ==
    LET r == twin[k].vb
        q == Request("block", ToString(r.bitmapNumber))
        a == [ok |-> ok, count |-> count]
    IN /\ r.pc = "blockinfo"
       /\ Stable(q, a)
       /\ remote' = Answered(q, a)
       /\ twin' = [twin EXCEPT ![k].vb = [r EXCEPT !.pc = "children",
                      !.txCount = IF ok THEN count ELSE <<>>]]
       /\ UNCHANGED <<pages, nonTwinVars>>

\* a page of the children listing arrives; after the last one the child
\* validations are started
twinChildrenPage(k, answer) ==
    LET s == twin[k]
        r == s.vb
        q == Request("children", ToString(s.kids.page))
        children == s.kids.children \o ChildrenPageIds(answer)
        ts == [i \in 1..Len(children) |->
                 [id |-> children[i], pc |-> "content", failed |-> "none",
                  parcel |-> <<>>, height |-> 0]]
    IN /\ r.pc = "children"
       /\ Stable(q, answer)
       /\ remote' = Answered(q, answer)
       /\ twin' = [twin EXCEPT ![k] =
             IF ChildrenPageThrows(s.kids.page, answer)
             THEN Dropped([s EXCEPT !.vb = Caught(r, "remote")])
             ELSE IF ChildrenPageBreaks(s.kids.page, answer)
             THEN Dropped([s EXCEPT !.kids = IdleKids, !.tasks = ts,
                      !.vb = Awaited([r EXCEPT !.pc = "parcels",
                                         !.childrenInscriptions = children],
                                     ts, <<>>)])
             ELSE [s EXCEPT !.kids.page = @ + 1, !.kids.children = children]]
       /\ UNCHANGED <<pages, nonTwinVars>>

twinChildContent(k, i, ok, body) ==
    LET s == twin[k]
        r == s.vb
        a == [ok |-> ok, body |-> body]
        valid == ok /\ isValidParcel(Trim(body), r.bitmapNumber, r.txCount)
        ts == [s.tasks EXCEPT ![i] =
                 IF valid
                 THEN [@ EXCEPT !.pc = "details",
                          !.parcel = <<[id |-> s.tasks[i].id,
                                        content |-> Trim(body)]>>]
                 ELSE [@ EXCEPT !.pc = "fulfilled",
                          !.failed = IF ok THEN "none" ELSE "content"]]
    IN /\ i \in DOMAIN s.tasks
       /\ s.tasks[i].pc = "content"
       /\ Stable(Request("content", s.tasks[i].id), a)
       /\ remote' = Answered(Request("content", s.tasks[i].id), a)
       /\ twin' = [twin EXCEPT ![k] = Dropped([s EXCEPT !.tasks = ts,
                      !.vb = Awaited(r, ts, s.parcelTimestamps)])]
       /\ UNCHANGED <<pages, nonTwinVars>>

twinChildDetails(k, i, ok, height) ==
    LET s == twin[k]
        r == s.vb
        a == [ok |-> ok, height |-> height]
        ts == [s.tasks EXCEPT ![i] =
                 IF ok THEN [@ EXCEPT !.pc = "fulfilled", !.height = height]
                 ELSE [@ EXCEPT !.pc = "rejected", !.failed = "details"]]
        pt == IF ok
              THEN TieBreak(s.parcelTimestamps, s.tasks[i].parcel[1],
                            [id |-> s.tasks[i].id, height |-> height])
              ELSE s.parcelTimestamps
    IN /\ i \in DOMAIN s.tasks
       /\ s.tasks[i].pc = "details"
       /\ Stable(Request("details", s.tasks[i].id), a)
       /\ remote' = Answered(Request("details", s.tasks[i].id), a)
       /\ twin' = [twin EXCEPT ![k] = Dropped([s EXCEPT !.tasks = ts,
                      !.parcelTimestamps = pt,
                      !.first = IF @ = 0 THEN i ELSE @,
                      !.vb = Awaited(r, ts, pt)])]
       /\ UNCHANGED <<pages, nonTwinVars>>

NoProbe == [fn |-> "none"]

Init ==
    /\ pages = [p \in PageIds |-> "unset"]
    /\ sat = [c \in Callers |-> IdleCall]
    /\ vb = IdleRun
    /\ kids = IdleKids
    /\ tasks = <<>>
    /\ parcelTimestamps = <<>>
    /\ range = IdleRange
    /\ probe = NoProbe
    /\ hook = IdleHook
    /\ fetches = [c \in FetchCallers |-> IdleFetch]
    /\ ui = IdleUi
    /\ snap = Unmounted
    /\ val = IdleValidation
    /\ twin = [k \in Runs |-> IdleTwin]
    /\ remote = <<>>

Next ==
    \/ \E c \in Callers, n \in SatInputs : getBitmapSat(c, n)
    \/ \E c \in Callers, ok \in BOOLEAN : fillPage(c, ok)
    \/ \E c \in Callers : SatSettled(c)
    \/ \E se \in RangeInputs : getBitmapSatsRange(se[1], se[2])
    \/ \E ok \in BOOLEAN : fillPageForRange(ok)
    \/ RangeSettled
    \/ \E n \in BitmapInputs : getBitmap(n)
    \/ \E n \in BitmapInputs, id \in ExpectedIds : validateBitmap(n, id)
    \/ \E n \in BitmapInputs, p \in ParcelInputs, id \in ExpectedParcelIds :
          validateBitmapParcel(n, p, id)
    \/ \E content \in ContentInputs, id \in {Undefined, RootId} :
          validateBitmapContent(content, id)
    \/ \E ok \in BOOLEAN : fillPageForBitmap(ok)
    \/ \E answer \in SatAnswers : getBitmapInscriptionId(answer)
    \/ \E ok \in BOOLEAN : rootInscriptionDetails(ok)
    \/ \E body \in RootBodies : rootContent(TRUE, body)
    \/ rootContent(FALSE, <<>>)
    \/ \E count \in {<<c>> : c \in TxCounts} \cup {<<>>} : getBlockInfo(TRUE, count)
    \/ getBlockInfo(FALSE, <<>>)
    \/ \E answer \in ChildrenAnswers(Len(kids.children)) :
          getChildrenInscriptions(answer)
    \/ validateParcels
    \/ \E i \in 1..MaxChildren, body \in ChildBodies : childContent(i, TRUE, body)
    \/ \E i \in 1..MaxChildren : childContent(i, FALSE, <<>>)
    \/ \E i \in 1..MaxChildren, h \in Heights : childDetails(i, TRUE, h)
    \/ \E i \in 1..MaxChildren : childDetails(i, FALSE, 0)
    \/ Settled

Spec == Init /\ [][Next]_vars

\* every page request of getChildrenInscriptions is answered
FairSpec ==
    Spec /\ WF_vars(\E answer \in ChildrenAnswers(Len(kids.children)) :
                       getChildrenInscriptions(answer))

\* ------------------------------------------------------------------------
\* Functions applied on their own to arguments drawn from small sets
\* ------------------------------------------------------------------------
\* parents and transaction counts isValidParcel is applied to
ParcelParents == {0, 5, 177700}

ParcelTxCounts == {<<>>, <<2>>, <<6>>}

\* raw bodies isValidParcel is applied to: those of the run and the README's
ParcelBodies ==
    ChildBodies \cup
    { <<"5", ".", "1", "7", "7", "7", "0", "0">> \o DOT_BITMAP,
      <<"6", ".", "1", "7", "7", "7", "0", "0">> \o DOT_BITMAP,
      <<"-", "1", ".", "1", "7", "7", "7", "0", "0">> \o DOT_BITMAP,
      <<"a", "b", "c", ".", "1", "7", "7", "7", "0", "0">> \o DOT_BITMAP,
      <<"+", "1", ".", "5">> \o DOT_BITMAP,
      <<"-", "0", ".", "5">> \o DOT_BITMAP,
      <<"1", " ", ".", "5">> \o DOT_BITMAP,
      <<".", "5">> \o DOT_BITMAP,
      <<"1", ".", "0", "5">> \o DOT_BITMAP,
      <<"5">> \o DOT_BITMAP }

\* isValidParcel on the trimmed text fetchInscriptionContent hands it
applyIsValidParcel(body, parentId, txCount) ==
    /\ probe = NoProbe
    /\ probe' = [fn |-> "isValidParcel", content |-> Trim(body),
                 parentId |-> parentId, txCount |-> txCount,
                 value |-> isValidParcel(Trim(body), parentId, txCount)]
    /\ UNCHANGED <<satVars, runVars, range, hookVars, twinVars>>

\* pages whose documents are decoded, the two repaired ones among them
DecodedPages == {0, 1, 2, 3}

DeltaValues == {0 - 1, 2}

\* the orderings of the offsets 0..size-1
Permutations(size) ==
    {f \in [1..size -> 0..(size - 1)] :
        \A i \in 1..size, j \in 1..size : f[i] = f[j] => i = j}

\* the document of a page as JSON.parse sees it: [deltas, indices], and for
\* pages 2 and 3, served without that nesting, one flat array
PageDocument(page, deltas, indices) ==
    IF page \in {2, 3} THEN deltas \o indices ELSE <<deltas, indices>>

\* parsedData.slice(0, 99999) and parsedData.slice(100000, 199999), end
\* index exclusive, for a page of size entries
SplitHalves(parsedData, size) ==
    <<SubSeq(parsedData, 1, size - 1),
      SubSeq(parsedData, size + 1, 2 * size - 1)>>

\* the deltas taken for the satoshi numbers themselves
FullSats_no_sum(deltas) == deltas

\* rebuild full sat numbers from deltas
RECURSIVE FullSats(_)
FullSats(deltas) ==
    IF deltas = <<>> THEN <<>>
    ELSE IF Len(deltas) = 1 THEN deltas
    ELSE LET fullSats == FullSats(SubSeq(deltas, 1, Len(deltas) - 1))
         IN Append(fullSats, fullSats[Len(fullSats)] + deltas[Len(deltas)])

\* Array(size).fill(0), then filledArray[index] = fullSats[i] in the order
\* of forEach: the last assignment to an offset stays
FilledArray(fullSats, indices, size) ==
    [off \in 0..(size - 1) |->
        LET at == {i \in 1..Len(indices) : indices[i] = off}
            last == CHOOSE i \in at : \A j \in at : j <= i
        IN IF at = {} THEN 0
           ELSE IF last <= Len(fullSats) THEN fullSats[last]
           ELSE Undefined]

\* fillPage once the document has been parsed
DecodePage(page, document, size) ==
    LET data == IF page \in {2, 3} THEN SplitHalves(document, size)
                ELSE document
    IN FilledArray(FullSats(data[1]), data[2], size)

\* fillPage on a page document of PageLen entries
applyFillPage(page, deltas, indices) ==
    /\ probe = NoProbe
    /\ probe' = [fn |-> "fillPage", page |-> page, deltas |-> deltas,
                 indices |-> indices,
                 value |-> DecodePage(page,
                                      PageDocument(page, deltas, indices),
                                      PageLen)]
    /\ UNCHANGED <<satVars, runVars, range, hookVars, twinVars>>

\* numbers getBitmapSatIndex is applied to: the table's and others
SatIndexInputs ==
    DOMAIN satIndices \cup {0 - 1, 0, 5, 92870, 92872, MaxBitmap, BitmapLimit}

applyGetBitmapSatIndex(n) ==
    /\ probe = NoProbe
    /\ probe' = [fn |-> "getBitmapSatIndex", n |-> n,
                 value |-> getBitmapSatIndex(n)]
    /\ UNCHANGED <<satVars, runVars, range, hookVars, twinVars>>

\* deltas and index sequences of one length up to PageLen, the indices
\* distinct offsets of the page
RebuildDeltaValues == {0 - 2, 5, 100}

RebuildInputs ==
    UNION { [1..k -> RebuildDeltaValues] \X
            {f \in [1..k -> 0..(PageLen - 1)] :
                \A i \in 1..k, j \in 1..k : f[i] = f[j] => i = j} :
            k \in 0..PageLen }

\* the two loops of fillPage on the parsed pair [deltas, indices]
applyRebuild(deltas, indices) ==
    /\ probe = NoProbe
    /\ probe' = [fn |-> "rebuild", deltas |-> deltas, indices |-> indices,
                 value |-> FilledArray(FullSats(deltas), indices, PageLen)]
    /\ UNCHANGED <<satVars, runVars, range, hookVars, twinVars>>

PureNext ==
    \/ \E n \in SatIndexInputs : applyGetBitmapSatIndex(n)
    \/ \E di \in RebuildInputs : applyRebuild(di[1], di[2])
    \/ \E body \in ParcelBodies, parentId \in ParcelParents,
          txCount \in ParcelTxCounts :
            applyIsValidParcel(body, parentId, txCount)
    \/ \E page \in DecodedPages, deltas \in [1..PageLen -> DeltaValues],
          indices \in Permutations(PageLen) :
            applyFillPage(page, deltas, indices)

PureSpec == Init /\ [][PureNext]_vars

\* ------------------------------------------------------------------------
\* The hooks of the application
\* ------------------------------------------------------------------------
InscriptionsNext ==
    \/ Commit
    \/ \E wallet \in WalletStates : useLaserEyes(wallet)
    \/ \E c \in FetchCallers, count \in UtxoCounts :
          getAddressTxsUtxo(c, TRUE, count, CHOOSE err \in Rejections : TRUE)
    \/ \E c \in FetchCallers, err \in Rejections :
          getAddressTxsUtxo(c, FALSE, 0, err)
    \/ \E c \in FetchCallers : retryDelay(c)
    \/ \E c \in FetchCallers, type \in UtxoTypes : processUtxoBatch(c, type)
    \/ \E c \in FetchCallers : fetchInscriptionContents(c)

InscriptionsSpec == Init /\ [][InscriptionsNext]_vars

\* every request is answered and every timer fires
FairInscriptionsSpec ==
    /\ InscriptionsSpec
    /\ \A c \in FetchCallers :
          /\ WF_vars(\E ok \in BOOLEAN, count \in UtxoCounts,
                        err \in Rejections :
                        getAddressTxsUtxo(c, ok, count, err))
          /\ WF_vars(retryDelay(c))

ValidationNext ==
    \/ \E content \in HookContents, inscriptionId \in HookIds,
          autoValidate \in BOOLEAN :
          useBitmapValidation(content, inscriptionId, autoValidate)
    \/ \E k \in 1..MaxInFlight, status \in Verdicts :
          validationSettled(k, status)

ValidationSpec == Init /\ [][ValidationNext]_vars

\* ------------------------------------------------------------------------
\* Two validation runs side by side
\* ------------------------------------------------------------------------
TwinNext ==
    \/ \E k \in Runs, a \in TwinInputs : twinValidateBitmap(k, a[1], a[2])
    \/ \E k \in Runs, ok \in BOOLEAN : twinFillPage(k, ok)
    \/ \E k \in Runs, answer \in TwinSatAnswers : twinSatAnswer(k, answer)
    \/ \E k \in Runs, ok \in BOOLEAN : twinRootDetails(k, ok)
    \/ \E k \in Runs, body \in TwinRootBodies : twinRootContent(k, TRUE, body)
    \/ \E k \in Runs : twinRootContent(k, FALSE, <<>>)
    \/ \E k \in Runs, count \in {<<c>> : c \in TxCounts} :
          twinBlockInfo(k, TRUE, count)
    \/ \E k \in Runs :
          \E answer \in TwinChildrenAnswers(Len(twin[k].kids.children)) :
             twinChildrenPage(k, answer)
    \/ \E k \in Runs, i \in 1..MaxChildren, body \in TwinChildBodies :
          twinChildContent(k, i, TRUE, body)
    \/ \E k \in Runs, i \in 1..MaxChildren : twinChildContent(k, i, FALSE, <<>>)
    \/ \E k \in Runs, i \in 1..MaxChildren, h \in Heights :
          twinChildDetails(k, i, TRUE, h)
    \/ \E k \in Runs, i \in 1..MaxChildren : twinChildDetails(k, i, FALSE, 0)

TwinSpec == Init /\ [][TwinNext]_vars

\* ------------------------------------------------------------------------
\* Properties
\* ------------------------------------------------------------------------
ValidationEntries ==
    {"validateBitmap", "validateBitmapParcel", "validateBitmapContent"}

OutOfDomain(n) == n < 0 \/ n > 839999

\* the numeric value of the parcel field of a candidate
ParcelNumberOf(entry) == ParseInt(Split(entry.content)[1]).val

\* the candidates that passed isValidParcel and whose height arrived
Survivors ==
    { [id |-> tasks[i].id, content |-> tasks[i].parcel[1].content,
       height |-> tasks[i].height] :
         i \in {j \in DOMAIN tasks :
                  tasks[j].pc = "fulfilled" /\ tasks[j].parcel # <<>>} }

\* lower height first, then the smaller identifier
Precedes(x, y) ==
    \/ x.height < y.height
    \/ x.height = y.height /\ StrLess(x.id, y.id)

RunValid ==
    /\ vb.pc = "done"
    /\ vb.entry = "validateBitmap"
    /\ vb.result.status = "valid"

\* C1: when validateBitmap returns valid, every parcel number that has a
\* surviving candidate has a winner, and every winner is the candidate of
\* its parcel number with the lowest height and, among equal heights, the
\* smallest id; the winners are then a function of the set of candidates
\* and not of their arrival order.
C1_LowestCandidateWins ==
    RunValid =>
        /\ \A c \in Survivors : \E w \in vb.result.validParcels :
              ParcelNumberOf(w) = ParcelNumberOf(c)
        /\ \A w \in vb.result.validParcels : \A c \in Survivors :
              ParcelNumberOf(c) = ParcelNumberOf(w) => ~Precedes(c, w)

\* C2: the valid parcels of a result hold at most one entry per parcel
\* number (the numeric value of the parcel field).
C2_OneWinnerPerParcelNumber ==
    (vb.pc = "done" /\ vb.entry \in ValidationEntries
        /\ vb.result.status = "valid") =>
        \A w1, w2 \in vb.result.validParcels :
            ParcelNumberOf(w1) = ParcelNumberOf(w2) => w1 = w2

\* C3: a run that reached the child validations and in which the content
\* or the details fetch of some child failed is not aborted: the root claim
\* passed every check, so the run returns valid.
C3_ChildFailureTolerated ==
    (vb.pc = "done" /\ vb.entry = "validateBitmap"
        /\ \E i \in DOMAIN tasks : tasks[i].failed # "none") =>
        vb.result.status = "valid"

\* C4: no two getBitmapSat calls have the source document of the same
\* page in flight at the same time.
C4_SingleFlight ==
    \A c1, c2 \in Callers :
        (/\ sat[c1].pc = "fillPage"
         /\ sat[c2].pc = "fillPage"
         /\ PageOf(sat[c1].n) = PageOf(sat[c2].n)) => c1 = c2

\* C5: whichever remote calls fail, a finished validateBitmap,
\* validateBitmapParcel or validateBitmapContent call has returned a result
\* whose status is valid, invalid, pending or unknown; it has not thrown.
C5_NeverThrows ==
    (vb.pc = "done" /\ vb.entry \in ValidationEntries) =>
        /\ vb.outcome = "returned"
        /\ vb.result.status \in {"valid", "invalid", "pending", "unknown"}

\* a validateBitmapParcel call that returned after the details fetch of a
\* child failed
C5_Witness ==
    /\ vb.pc = "done"
    /\ vb.entry = "validateBitmapParcel"
    /\ vb.outcome = "returned"
    /\ vb.result.message = "error"
    /\ \E i \in DOMAIN tasks : tasks[i].failed = "details"

\* C6 as stated: a validation entry point called with an out-of-domain
\* bitmap number throws a range error instead of returning a result.
C6_EntryPointsThrowRangeError ==
    (vb.pc = "done" /\ vb.entry \in ValidationEntries
        /\ OutOfDomain(vb.bitmapNumber)) =>
        vb.outcome = "thrown" /\ vb.error = "range"

\* C6 amended: an out-of-domain bitmap number makes getBitmapSat and
\* getBitmap throw a range error; the validation entry points catch it and
\* return an invalid result, and they never throw.
C6_RangeErrorCaughtByEntryPoints ==
    /\ \A c \in Callers :
          (sat[c].pc = "done" /\ OutOfDomain(sat[c].n)) =>
              sat[c].outcome = "thrown" /\ sat[c].error = "range"
    /\ (vb.pc = "done" /\ vb.entry = "getBitmap"
          /\ OutOfDomain(vb.bitmapNumber)) =>
          vb.outcome = "thrown" /\ vb.error = "range"
    /\ (vb.pc = "done" /\ vb.entry \in ValidationEntries) =>
          /\ vb.outcome = "returned"
          /\ OutOfDomain(vb.bitmapNumber) => vb.result.status = "invalid"

\* validateBitmapContent("840000.bitmap") has returned invalid
C6_Witness ==
    /\ vb.pc = "done"
    /\ vb.entry = "validateBitmapContent"
    /\ vb.bitmapNumber = 840000
    /\ vb.outcome = "returned"
    /\ vb.result.status = "invalid"
    /\ vb.result.message = "error"

\* a finished getBitmapSat call threw a range error exactly when its number
\* is out of domain, and no page is requested for such a number
C7_RangeOutcome ==
    \A c \in Callers :
        /\ sat[c].pc = "done" =>
              (OutOfDomain(sat[c].n) <=>
                  (sat[c].outcome = "thrown" /\ sat[c].error = "range"))
        /\ sat[c].pc = "fillPage" => ~OutOfDomain(sat[c].n)

\* a getBitmapSat call with an out-of-domain number settles at once and
\* leaves the page cache as it was
C7_RangeStep ==
    \A c \in Callers :
        (sat[c].pc = "idle" /\ sat'[c].pc # "idle" /\ OutOfDomain(sat'[c].n))
            => (sat'[c].pc = "done" /\ pages' = pages)

\* C7: getBitmapSat(n) throws a range error for every n < 0 and every
\* n > 839999, without requesting a page or changing the page cache, and
\* throws no range error for any n in [0, 839999].
C7_GetSatRange == []C7_RangeOutcome /\ [][C7_RangeStep]_vars

\* getBitmapSat(840000) has thrown and getBitmapSat(839999) has returned
C7_Witness ==
    \E c1, c2 \in Callers :
        /\ sat[c1].pc = "done" /\ sat[c1].n = 840000
        /\ sat[c1].outcome = "thrown"
        /\ sat[c2].pc = "done" /\ sat[c2].n = 839999
        /\ sat[c2].outcome = "returned"

\* C8: getChildrenInscriptions ends with an error when a page request got
\* a non-404 HTTP error, and with the empty list, without error, when the
\* request for page 0 got a 404.
C8_ChildrenErrorSurfaces ==
    kids.outcome # "none" =>
        /\ (\E i \in DOMAIN kids.log : kids.log[i].status = "500") =>
              kids.outcome = "thrown"
        /\ (Len(kids.log) = 1 /\ kids.log[1].status = "404") =>
              kids.outcome = "returned" /\ kids.children = <<>>

\* an answer after which no further page is to be requested
StopsPagination(e) ==
    e.status # "ok" \/ ~e.hasIds \/ e.ids = <<>> \/ ~e.more

RECURSIVE ConcatIds(_)
ConcatIds(log) ==
    IF log = <<>> THEN <<>>
    ELSE (IF Head(log).hasIds THEN Head(log).ids ELSE <<>>)
            \o ConcatIds(Tail(log))

\* the requests are for pages 0, 1, 2, ... in order, none follows an answer
\* that stops the pagination, and when every request succeeded the returned
\* list is the concatenation of the ids of the pages requested, the last of
\* which is the first that stops
C9_Pagination ==
    /\ \A i \in DOMAIN kids.log : kids.log[i].page = i - 1
    /\ \A i \in DOMAIN kids.log :
          i < Len(kids.log) => ~StopsPagination(kids.log[i])
    /\ vb.pc = "children" => kids.page = Len(kids.log)
    /\ (kids.outcome # "none"
          /\ \A i \in DOMAIN kids.log : kids.log[i].status = "ok") =>
          /\ kids.outcome = "returned"
          /\ kids.log # <<>>
          /\ StopsPagination(kids.log[Len(kids.log)])
          /\ kids.children = ConcatIds(kids.log)

\* C9: getChildrenInscriptions requests pages 0, 1, 2, ... in order, stops
\* at the first page whose answer has more = false or no ids, returns the
\* concatenation of the ids of the pages up to that one when all requests
\* succeeded, and always comes to an end.
C9_FollowsPagination ==
    []C9_Pagination /\ ((vb.pc = "children") ~> (vb.pc # "children"))

\* two pages were requested, both succeeded, and their ids were returned
C9_Witness ==
    /\ kids.outcome = "returned"
    /\ Len(kids.log) = 2
    /\ kids.log[1].status = "ok"
    /\ kids.log[2].status = "ok"
    /\ kids.log[2].ids # <<>>
    /\ Len(kids.children) = 2

\* C10: getBitmap asks for the record at (getBitmapSat(n),
\* getBitmapSatIndex(n)) once the page of n is decoded, and when it returns
\* instead of throwing, it returns an identifier, never an absent one.
C10_ResolvesToIdentifier ==
    /\ vb.pc = "satQuery" =>
          /\ pages[vb.bitmapNumber \div 100000] = "decoded"
          /\ vb.query[1] = <<vb.bitmapNumber \div 100000,
                             vb.bitmapNumber % 100000>>
          /\ vb.query[2] = (IF vb.bitmapNumber = 92871 THEN 1 ELSE 0)
    /\ (vb.pc = "done" /\ vb.entry = "getBitmap"
          /\ vb.outcome = "returned") => vb.value # Undefined

\* the parcel field is a run of decimal digits, the rest of the content is
\* .n.bitmap, and its number is below the transaction count when known
C11_WellFormedParcel(content, n, txCount) ==
    \E k \in 1..Len(content) :
        /\ AllDigits(SubSeq(content, 1, k))
        /\ SubSeq(content, k + 1, Len(content))
             = <<".">> \o ToString(n) \o DOT_BITMAP
        /\ txCount # <<>> => DigitsValue(SubSeq(content, 1, k), 0) < txCount[1]

\* C11: a child of bitmap n survives parcel validation if and only if its
\* content is one triple parcelNumber.n.bitmap whose parcel field is purely
\* a non-negative decimal integer that is below the transaction count when
\* the count is known.
C11_SurvivesIffWellFormed ==
    probe.fn = "isValidParcel" =>
        (probe.value <=> C11_WellFormedParcel(probe.content, probe.parentId,
                                              probe.txCount))

\* the winners of the parent's result whose parcel field has the value p
C12_Winners(parent, p) == {w \in parent.validParcels : ParcelNumberOf(w) = p}

\* C12: validateBitmapParcel(n, p, expected) runs validateBitmap(n) without
\* an expected id; a parent that is not valid gives a result that is not
\* valid, no winner for parcel number p gives invalid (not found), an
\* expected id that differs from the winner's gives invalid (mismatch), and
\* in every other case the result is valid with the winner's id.
C12_ParcelOutcome ==
    (vb.pc = "done" /\ vb.viaParcel) =>
        LET parent == vb.bitmapResult
            winners == C12_Winners(parent, vb.parcelNumber)
        IN /\ vb.inscriptionId = Undefined
           /\ vb.outcome = "returned"
           /\ IF parent.status # "valid" THEN vb.result.status # "valid"
              ELSE IF winners = {}
              THEN /\ vb.result.status = "invalid"
                   /\ vb.result.message = "parcel_not_found"
              ELSE IF /\ Truthy(vb.parcelInscriptionId)
                      /\ \A w \in winners : w.id # vb.parcelInscriptionId
              THEN /\ vb.result.status = "invalid"
                   /\ vb.result.message = "parcel_id_mismatch"
              ELSE /\ vb.result.status = "valid"
                   /\ \E w \in winners : vb.result.inscriptionId = w.id

\* the places where a leading run of digits of content is followed by
\* .bitmap and nothing else
C13_BitmapForm(content) ==
    {k \in 1..Len(content) :
        /\ AllDigits(SubSeq(content, 1, k))
        /\ SubSeq(content, k + 1, Len(content)) = DOT_BITMAP}

\* the places where content is digits, a dot, digits, .bitmap
C13_ParcelForm(content) ==
    {km \in (1..Len(content)) \X (1..Len(content)) :
        /\ AllDigits(SubSeq(content, 1, km[1]))
        /\ km[1] + 1 <= Len(content)
        /\ content[km[1] + 1] = "."
        /\ AllDigits(SubSeq(content, km[1] + 2, km[2]))
        /\ SubSeq(content, km[2] + 1, Len(content)) = DOT_BITMAP}

C13_Dispatched ==
    vb.entry = "validateBitmapContent" =>
        LET content == vb.contentArg
            one == C13_BitmapForm(content)
            two == C13_ParcelForm(content)
        IN IF one # {}
           THEN \E k \in one :
                   /\ ~vb.viaParcel
                   /\ vb.bitmapNumber = DigitsValue(SubSeq(content, 1, k), 0)
                   /\ vb.inscriptionId = vb.idArg
           ELSE IF two # {}
           THEN \E km \in two :
                   /\ vb.viaParcel
                   /\ vb.parcelNumber
                        = DigitsValue(SubSeq(content, 1, km[1]), 0)
                   /\ vb.bitmapNumber
                        = DigitsValue(SubSeq(content, km[1] + 2, km[2]), 0)
                   /\ vb.parcelInscriptionId = vb.idArg
                   /\ vb.inscriptionId = Undefined
           ELSE /\ vb.pc = "done"
                /\ vb.outcome = "returned"
                /\ vb.result.status = "invalid"
                /\ vb.result.message = "bad_format"
                /\ ~vb.resolved /\ vb.query = <<>> /\ vb.content = <<>>
                /\ kids = IdleKids /\ tasks = <<>>

\* the call on content of another form returns within the step that made it
C13_NoRequest ==
    (vb.pc = "idle" /\ vb'.entry = "validateBitmapContent"
       /\ C13_BitmapForm(vb'.contentArg) = {}
       /\ C13_ParcelForm(vb'.contentArg) = {})
    => (vb'.pc = "done" /\ pages' = pages)

\* C13: validateBitmapContent dispatches on the grammar digits(.digits)?.bitmap
\* alone: content of another form returns invalid (bad format) with no
\* request made; one number N runs validateBitmap(N, id); two numbers P.N
\* run validateBitmapParcel(N, P, id), the first the parcel, the second the
\* parent block.
C13_ContentDispatch == []C13_Dispatched /\ [][C13_NoRequest]_vars

\* a parcel claim P.N.bitmap was dispatched and its run has returned valid
C13_Witness ==
    /\ vb.entry = "validateBitmapContent"
    /\ vb.viaParcel
    /\ vb.pc = "done"
    /\ vb.result.status = "valid"

\* validateBitmap was given an expected id and getBitmap resolved another
C14_Mismatch ==
    /\ vb.entry \in ValidationEntries
    /\ vb.resolved
    /\ Truthy(vb.inscriptionId)
    /\ vb.actualInscriptionId # vb.inscriptionId

C14_Terminal ==
    C14_Mismatch =>
        /\ vb.pc = "done"
        /\ vb.outcome = "returned"
        /\ vb.bitmapResult.status = "invalid"
        /\ vb.bitmapResult.message = "id_mismatch"
        /\ vb.content = <<>> /\ vb.txCount = <<>>
        /\ vb.childrenInscriptions = <<>>
        /\ kids = IdleKids /\ tasks = <<>>

C14_NothingFollows == C14_Mismatch => (vb' = vb \/ vb' = IdleRun)

\* C14: when validateBitmap(n, expectedId) resolves an id that differs from
\* the expected one the result is invalid (identifier mismatch) and the run
\* ends there: no content, details, block-info, children or child request
\* is made after the mismatch.
C14_MismatchIsTerminal == []C14_Terminal /\ [][C14_NothingFollows]_vars

C14_Witness ==
    /\ C14_Mismatch
    /\ vb.actualInscriptionId = RootId
    /\ vb.result.message = "id_mismatch"

\* the decimal strings of the bitmap numbers whose runs reach the content
C15_Decimal(n) ==
    CASE n = 0 -> <<"0">>
      [] n = 5 -> <<"5">>
      [] n = 92871 -> <<"9", "2", "8", "7", "1">>

\* content has the decimal string of n somewhere and .bitmap at its end
C15_ContentOk(content, n) ==
    /\ \E i \in 1..Len(content), j \in 1..Len(content) :
          SubSeq(content, i, j) = C15_Decimal(n)
    /\ \E i \in 1..Len(content) :
          /\ SubSeq(content, i, Len(content)) = <<".", "b", "i", "t", "m", "a", "p">>

C15_Checked ==
    (vb.entry \in ValidationEntries /\ vb.content # <<>>) =>
        IF C15_ContentOk(vb.content[1], vb.bitmapNumber)
        THEN \/ vb.pc \in {"blockinfo", "children", "childrenDone", "parcels"}
             \/ /\ vb.pc = "done"
                /\ vb.bitmapResult.message \in {"valid", "error"}
        ELSE /\ vb.pc = "done"
             /\ vb.bitmapResult.status = "invalid"
             /\ vb.bitmapResult.message = "bad_content"
             /\ vb.childrenInscriptions = <<>>
             /\ kids = IdleKids /\ tasks = <<>>

\* after a content that passes, the next request but the block info is the
\* one for the first page of children
C15_Proceeds ==
    /\ (vb.pc = "content" /\ vb'.content # <<>>
          /\ C15_ContentOk(vb'.content[1], vb.bitmapNumber))
       => vb'.pc \in {"blockinfo", "children"}
    /\ vb.pc = "blockinfo" => vb'.pc \in {"blockinfo", "children"}
    /\ (vb.pc # "children" /\ vb'.pc = "children") => kids' = IdleKids

\* C15: validateBitmap returns invalid when the content of the canonical
\* record lacks the decimal string of n or the suffix .bitmap, and then no
\* children are enumerated; when the content has both, the run goes on to
\* enumerate the children.
C15_RootContentGate == []C15_Checked /\ [][C15_Proceeds]_vars

\* a content that ends with .bitmap but lacks the number was refused
C15_Witness ==
    /\ vb.pc = "done"
    /\ vb.content # <<>>
    /\ vb.bitmapResult.message = "bad_content"
    /\ EndsWith(vb.content[1], DOT_BITMAP)

C16_Skipped ==
    /\ vb.pc = "blockinfo" => vb.bitmapNumber # 0
    /\ vb.bitmapNumber = 0 => vb.txCount = <<>>

\* while a child's content is awaited with no transaction count, every
\* content parcel.n.bitmap with a decimal parcel field will pass the test
\* the run applies to it, whatever the number
C16_NoUpperBound ==
    \A i \in DOMAIN tasks :
        (tasks[i].pc = "content" /\ vb.txCount = <<>>) =>
            \A body \in ChildBodies :
                C11_WellFormedParcel(Trim(body), vb.bitmapNumber, <<>>) =>
                    isValidParcel(Trim(body), vb.bitmapNumber, vb.txCount)

\* whatever the answer to the block-info request, a failure included, the
\* run goes on to the children request; only a count that was served
\* becomes the bound
C16_AnswerProceeds ==
    (vb.pc = "blockinfo" /\ vb' # vb) =>
        /\ vb'.pc = "children"
        /\ vb'.txCount \in {<<>>} \cup {<<c>> : c \in TxCounts}

\* the block-info request is made after the content test exactly when n # 0
C16_Requested ==
    (vb.pc = "content" /\ vb'.pc \notin {"content", "done"}) =>
        IF vb.bitmapNumber = 0 THEN vb'.pc = "children"
        ELSE vb'.pc = "blockinfo"

\* C16: for n = 0 validateBitmap makes no block-info request and applies no
\* upper bound to parcel numbers; for n # 0 it requests the block info, and
\* when the request fails the run goes on and accepts every non-negative
\* parcel number of a well-formed child.
C16_TxCountDegradation ==
    /\ [](C16_Skipped /\ C16_NoUpperBound)
    /\ [][C16_Requested /\ C16_AnswerProceeds]_vars

\* bitmap 5 without a transaction count: parcel 2, which the count 2 would
\* have refused, is among the winners of a valid result
C16_Witness ==
    /\ RunValid
    /\ vb.bitmapNumber = 5
    /\ vb.txCount = <<>>
    /\ \E w \in vb.result.validParcels : ParcelNumberOf(w) = 2

\* the ids of the children the run enumerated, in the order of enumeration
C17_Enumerated == [i \in DOMAIN tasks |-> tasks[i].id]

\* C17: whenever validateBitmap returns valid, allChildren is the sequence
\* of every enumerated child id, and validParcels holds exactly one entry
\* for each parcel number that has at least one surviving candidate.
C17_ValidResultLists ==
    RunValid =>
        /\ vb.result.allChildren = C17_Enumerated
        /\ \A s \in Survivors :
              Cardinality({w \in vb.result.validParcels :
                             ParcelNumberOf(w) = ParcelNumberOf(s)}) = 1
        /\ \A w \in vb.result.validParcels :
              \E s \in Survivors : ParcelNumberOf(s) = ParcelNumberOf(w)

\* the children of the run one of whose fetches failed
C18_FailedChildren == {tasks[i].id : i \in {j \in DOMAIN tasks : tasks[j].failed # "none"}}

\* validateBitmap has returned a result
C18_Returned == vb.pc = "done" /\ vb.bitmapResult.status \in {"valid", "invalid"}

C18_Listed(seq) == {seq[i] : i \in DOMAIN seq}

\* C18 as stated: a child whose content or metadata fetch failed appears
\* neither in allChildren nor in validParcels of the returned result.
C18_FailedChildExcluded ==
    C18_Returned =>
        \A id \in C18_FailedChildren :
            /\ id \notin C18_Listed(vb.bitmapResult.allChildren)
            /\ \A w \in vb.bitmapResult.validParcels : w.id # id

\* C18 as amended: a child whose content or metadata fetch failed never
\* appears in validParcels of the returned result; in a valid result it is
\* still listed in allChildren, which holds every enumerated child.
C18_FailedChildNotAParcel ==
    C18_Returned =>
        \A id \in C18_FailedChildren :
            /\ \A w \in vb.bitmapResult.validParcels : w.id # id
            /\ vb.bitmapResult.status = "valid"
                 => id \in C18_Listed(vb.bitmapResult.allChildren)

\* a valid result of a run in which a child's content fetch failed
C18_Witness ==
    /\ C18_Returned
    /\ vb.bitmapResult.status = "valid"
    /\ C18_FailedChildren # {}

\* the sum of the first i deltas
RECURSIVE C19_Sum(_, _)
C19_Sum(deltas, i) == IF i = 0 THEN 0 ELSE C19_Sum(deltas, i - 1) + deltas[i]

\* as many deltas as indices, the indices a bijection onto the offsets of
\* the page, every reconstructed satoshi positive
C19_WellFormedPage(deltas, indices) ==
    /\ Len(deltas) = Len(indices)
    /\ \A off \in 0..(PageLen - 1) :
          Cardinality({i \in 1..Len(indices) : indices[i] = off}) = 1
    /\ \A i \in 1..Len(deltas) : C19_Sum(deltas, i) > 0

\* C19: for a well-formed page document every offset of the decoded page,
\* which is what getBitmapSat returns, is a positive integer and never the
\* unset sentinel 0; this includes the pages 2 and 3 that go through the
\* wrap-and-split repair.
C19_NoSentinel ==
    (probe.fn = "fillPage" /\ C19_WellFormedPage(probe.deltas, probe.indices))
    => \A off \in 0..(PageLen - 1) :
          probe.value[off] # 0 /\ probe.value[off] \in Nat

C20_InDomain(n) == 0 <= n /\ n <= 839999

\* what getBitmapSat returns for n once the page is decoded
C20_Sat(n) == <<n \div 100000, n % 100000>>

C20_RangeOutcome ==
    range.pc = "done" =>
        /\ (C20_InDomain(range.start) /\ range.start <= range.end
              /\ C20_InDomain(range.end))
           => IF range.outcome = "returned"
              THEN /\ Len(range.arr) = range.end - range.start + 1
                   /\ \A k \in 0..(range.end - range.start) :
                         range.arr[k + 1] = C20_Sat(range.start + k)
              ELSE range.outcome = "thrown" /\ range.error = "remote"
        /\ (\E n \in range.start..range.end : ~C20_InDomain(n))
           => /\ range.outcome = "thrown"
              /\ range.error \in {"range", "remote"}
              /\ ~C20_InDomain(range.start) => range.error = "range"

\* the call is left only with every page fetch answered: a failed fetch is
\* the one way to another error than the range error
C20_RangeStep ==
    (range.pc # "done" /\ range'.pc = "done" /\ range'.error = "remote")
    => range.pc = "fillPage"

\* C20: getBitmapSatsRange(start, end) over in-domain bounds returns
\* end - start + 1 values, the i-th being getBitmapSat(start + i), in
\* ascending order; it throws getBitmapSat's range error when a number of
\* [start, end] is outside the domain (a page fetch that fails before that
\* number is reached throws its own error in either case).
C20_GetSatsRange == []C20_RangeOutcome /\ [][C20_RangeStep]_vars

\* a range across the boundary of two pages was returned
C20_Witness ==
    /\ range.pc = "done"
    /\ range.outcome = "returned"
    /\ range.start = 99999 /\ range.end = 100001
    /\ Len(range.arr) = 3

\* a stored page stays stored
C21_Kept == \A p \in PageIds : pages[p] = "decoded" => pages'[p] = "decoded"

\* a getBitmapSat call that starts on a stored page returns at once
C21_LaterCall ==
    \A c \in Callers :
        (sat[c].pc = "idle" /\ sat'[c].pc # "idle" /\ 0 <= sat'[c].n
           /\ sat'[c].n <= 839999 /\ pages[sat'[c].n \div 100000] = "decoded")
        => (sat'[c].pc = "done" /\ sat'[c].outcome = "returned"
              /\ pages' = pages)

\* a getBitmapSatsRange call that starts with its pages stored returns at
\* once and has fetched nothing
C21_LaterRange ==
    (range.pc = "idle" /\ range'.pc # "idle"
       /\ \A n \in range'.start..range'.end :
             0 <= n /\ n <= 839999 /\ pages[n \div 100000] = "decoded")
    => (range'.pc = "done" /\ range'.outcome = "returned"
          /\ ~range'.fetched /\ pages' = pages)

\* a fetch is awaited only for a page that was missing when it was asked for
C21_FetchOnlyMissing ==
    /\ range.pc = "fillPage" => pages[range.i \div 100000] = "unset"
    /\ vb.pc = "fillPage" => pages[vb.bitmapNumber \div 100000] = "unset"

\* C21: once a page is decoded and stored, no later getBitmapSat or
\* getBitmapSatsRange call for a number of that page fetches or decodes it
\* again, and the slot keeps its page for the rest of the process; a range
\* over numbers of stored pages issues no fetch.
C21_CachedPageNotRefetched ==
    /\ []C21_FetchOnlyMissing
    /\ [][C21_Kept /\ C21_LaterCall /\ C21_LaterRange]_vars

\* a range of three numbers across two stored pages was returned without
\* a fetch
C21_Witness ==
    /\ range.pc = "done"
    /\ range.outcome = "returned"
    /\ Len(range.arr) = 3
    /\ ~range.fetched

\* the numbers of the exception table
C22_Table ==
    {92871, 92970, 123132, 365518, 700181, 826151, 827151, 828151, 828239,
     828661, 829151, 830151, 832104, 832249, 832252, 832385, 833067, 833101,
     833105, 833109, 833121, 834030, 834036, 834051, 834073, 836151, 837115,
     837120, 837151, 837183, 837188, 838058, 838068, 838076, 838096, 838151,
     838821, 839151, 839377, 839378, 839382, 839397, 840151, 841151, 842151,
     845151}

C22_Lookup ==
    probe.fn = "getBitmapSatIndex" =>
        /\ probe.value \in Nat
        /\ probe.n \in C22_Table => probe.value > 0
        /\ probe.n \notin C22_Table => probe.value = 0
        /\ probe.n = 92871 => probe.value = 1
        /\ probe.n = 834051 => probe.value = 17

\* the lookup changes nothing but the value it hands back
C22_NoSideEffect ==
    probe'.fn = "getBitmapSatIndex"
    => UNCHANGED <<pages, sat, vb, kids, tasks, parcelTimestamps, range>>

\* C22: getBitmapSatIndex returns the curated non-zero index for every
\* number of the exception table (92871 -> 1, 834051 -> 17) and 0 for every
\* other number; it has no side effect and never fails.
C22_SatIndex == []C22_Lookup /\ [][C22_NoSideEffect]_vars

C22_Witness ==
    /\ probe.fn = "getBitmapSatIndex"
    /\ probe.n = 834051
    /\ probe.value = 17

\* C25: for a parsed page with deltas d and indices perm of one length the
\* decoded page has output[perm[i]] = d[0] + ... + d[i] for every i and the
\* sentinel 0 at every offset that is not among the indices.
C25_PageDecoding ==
    probe.fn = "rebuild" =>
        /\ \A i \in 1..Len(probe.deltas) :
              probe.value[probe.indices[i]] = C19_Sum(probe.deltas, i)
        /\ \A off \in 0..(PageLen - 1) :
              (\A i \in 1..Len(probe.indices) : probe.indices[i] # off)
              => probe.value[off] = 0

\* deltas [100, 5, -2] with indices [2, 0, 1]
C25_Witness ==
    /\ probe.fn = "rebuild"
    /\ probe.deltas = <<100, 5, 0 - 2>>
    /\ probe.indices = <<2, 0, 1>>
    /\ probe.value[2] = 100 /\ probe.value[0] = 105 /\ probe.value[1] = 103

\* C24: a validateBitmap run returns its verdict only after every child's
\* content fetch and metadata fetch has settled: in no reachable state has
\* the run returned while one of its child validations is still pending.
C24_ReturnsAfterAllSettled ==
    (vb.pc = "done" /\ vb.entry \in ValidationEntries) => AllSettled(tasks)

C26_Slots == \A p \in PageIds : pages[p] \in {"unset", "decoded"}

\* a getBitmapSat call that fails on its page writes no slot: a slot that
\* was unset stays unset
C26_FailureStoresNothing ==
    \A c \in Callers :
        (sat[c].pc = "fillPage" /\ sat'[c].pc = "done"
           /\ sat'[c].outcome = "thrown")
        => /\ pages' = pages
           /\ sat'[c].error = "remote"

\* a getBitmapSat call that starts on an unset slot fetches the page
C26_FetchedAgain ==
    \A c \in Callers :
        (sat[c].pc = "idle" /\ sat'[c].pc # "idle" /\ 0 <= sat'[c].n
           /\ sat'[c].n <= 839999 /\ pages[sat'[c].n \div 100000] = "unset")
        => sat'[c].pc = "fillPage"

\* C26: every cache slot is either unset or a completely decoded page; when
\* the fetch or the parse of a page fails the slot is not written, the
\* getBitmapSat call fails, and a later getBitmapSat for the page fetches it
\* again.
C26_NoPartialPage ==
    []C26_Slots /\ [][C26_FailureStoresNothing /\ C26_FetchedAgain]_vars

\* a call has failed on its page and the slot is still unset
C26_Witness ==
    \E c \in Callers :
        /\ sat[c].pc = "done"
        /\ sat[c].outcome = "thrown"
        /\ sat[c].error = "remote"
        /\ pages[sat[c].n \div 100000] = "unset"

\* C27: a fetchFromAddress call sends the address request at most 3 times:
\* no request follows a successful one, the delay is waited only between
\* a failed request and the next one (none after the third failure), the
\* third failure ends the call as failed with no batch processed, and the
\* retry loop is always left.
C27_InLoop(c) == fetches[c].pc \in {"utxo", "delay"}

C27_Counts ==
    \A c \in FetchCallers :
        LET f == fetches[c]
        IN /\ f.attempts <= 3
           /\ f.pc = "utxo" => f.delays = f.attempts - 1 /\ f.batches = 0
           /\ f.pc = "delay" => f.delays = f.attempts /\ f.attempts < 3
           /\ f.pc \in {"batch", "contents"} => f.delays = f.attempts - 1
           /\ f.outcome # "none" /\ f.pc = "idle" =>
                 f.delays = f.attempts - 1
           /\ f.outcome = "failed" /\ f.pc = "idle" =>
                 f.attempts = 3 /\ f.batches = 0

C27_Steps ==
    \A c \in FetchCallers :
        LET f == fetches[c]
            g == fetches'[c]
        IN /\ f.pc \in {"batch", "contents"} => ~(g.pc \in {"utxo", "delay"})
           /\ f.pc = "delay" /\ g # f =>
                 g.pc = "utxo" /\ g.attempts = f.attempts + 1
           /\ f.pc = "utxo" /\ g # f =>
                 \/ g.pc = "delay" /\ f.attempts < 3
                 \/ g.pc = "batch" /\ g.attempts = f.attempts
                 \/ g.pc = "idle" /\ g.attempts = f.attempts
           /\ \A err \in Rejections :
                 getAddressTxsUtxo(c, FALSE, 0, err) /\ f.attempts = 3 =>
                     /\ g.pc = "idle" /\ g.outcome = "failed"
                     /\ g.batches = 0 /\ g.delays = 2

C27_RetryLoop ==
    /\ []C27_Counts
    /\ [][C27_Steps]_vars
    /\ \A c \in FetchCallers : C27_InLoop(c) ~> ~C27_InLoop(c)

C27_Witness ==
    \E c \in FetchCallers :
        /\ fetches[c].pc = "idle" /\ fetches[c].outcome = "failed"
        /\ fetches[c].attempts = 3 /\ fetches[c].delays = 2

\* C28: useBitmapValidation shows no stale verdict: once no validation is
\* under way, validationResult is the result for the content and
\* inscriptionId the hook was last rendered with, and isValidating is true
\* as long as a validation is under way.
C28_Current ==
    val.mounted /\ val.autoValidate /\ Truthy(val.content)
        /\ val.inflight = <<>>
    => /\ val.validationResult # NullResult
       /\ val.validationResult.args = <<val.content, val.inscriptionId>>

C28_Validating == val.inflight # <<>> => val.isValidating

C28_NoStaleVerdict == C28_Current /\ C28_Validating

\* C29: when a fetchFromAddress call ends in failure, the hook's error is
\* the failure message, isLoading is false and the inscriptions, runes and
\* cardinals lists are empty.
C29_Fails(c) ==
    /\ fetches[c].pc # "idle"
    /\ fetches'[c].pc = "idle"
    /\ fetches'[c].outcome = "failed"

C29_ErrorAfterFailure ==
    [][\A c \in FetchCallers :
          C29_Fails(c) =>
              /\ hook'.error = fetches'[c].message
              /\ hook'.error # Null
              /\ ~hook'.isLoading
              /\ hook'.inscriptions = 0
              /\ hook'.runes = 0
              /\ hook'.cardinals = 0]_vars

\* C30: at most one fetchFromAddress call of a useInscriptions instance has
\* a request under way: a call made while an earlier one has not finished
\* returns without sending anything, also when both initial-fetch effects
\* call it before isLoading = true has been rendered.
C30_InFlight == {c \in FetchCallers : fetches[c].pc # "idle"}

C30_OneFetchInFlight == Cardinality(C30_InFlight) <= 1

\* C23: two validateBitmap calls with the same arguments against a remote
\* whose answers do not change return the same status, the same
\* inscription id and the same set of winning parcels, in whatever order
\* the answers to their child requests arrive and also when the two calls
\* run at the same time.
C23_BothReturned == \A k \in Runs : twin[k].vb.pc = "done"

C23_SameVerdict ==
    C23_BothReturned =>
        /\ twin[1].vb.outcome = twin[2].vb.outcome
        /\ twin[1].vb.result.status = twin[2].vb.result.status
        /\ twin[1].vb.result.inscriptionId = twin[2].vb.result.inscriptionId
        /\ twin[1].vb.result.validParcels = twin[2].vb.result.validParcels

C23_Witness ==
    /\ C23_BothReturned
    /\ twin[2].concurrent
    /\ twin[1].first # 0 /\ twin[2].first # 0
    /\ twin[1].first # twin[2].first
    /\ twin[1].vb.result.status = "valid"
    /\ Cardinality(twin[1].vb.result.validParcels) = 1

====
